---- MODULE Spec2Model ----
(***************************************************************************)
(* Model of the form-perf-poc application: the field generator, the        *)
(* initial value mapper, the configuration controls of the form pages, the *)
(* Zod and Yup validation schema builders and the two form components      *)
(* (TanStack Form and Formik).                                             *)
(*                                                                         *)
(* A JavaScript string is a sequence of one-character strings, so that     *)
(* length, trim, concatenation and number formatting are computed.  A      *)
(* JavaScript value of a form field is a tagged record (JSString,          *)
(* JSBoolean, JSNull, JSDate); a Date is its time value, an integer.       *)
(***************************************************************************)
EXTENDS Integers, Sequences, FiniteSets, TLC

VARIABLES
    config,         \* FieldTypeConfig held by the page (useState)
    fields,         \* useMemo(generateFields(fieldTypeConfig))
    initialValues,  \* useMemo(getInitialValues(fields))
    lastChange,     \* the last configuration-control event: type, raw text, parsed number
    changes,        \* number of configuration-control events so far
    now,            \* the clock read by new Date()
    payload,        \* the FormValues.fields handed to the schema validators
    zodResult,      \* issues of the last Zod whole-schema validation
    yupResult,      \* inner errors of the last Yup whole-schema validation
    fieldResult,    \* results of the last single-field validator calls
    variant,        \* the form component on the page: "tanstack", "formik" or "none"
    values,         \* FormValues.fields held by the form library
    touched,        \* names of the touched fields
    errors,         \* the error state of the form library
    formErrors,     \* useState<string[]> of FormikFormComponent
    status,         \* formik.status
    submittedAt,    \* useState<number | null> of the form component
    lastAttempt,    \* what the submit attempt just made did, calls of the onSubmit prop included
    lastValidation, \* what the last validation handler returned
    ci,             \* whether process.env.CI is set for the test runner
    scenario,       \* the test being run: its calls, its position, its run and its status
    metrics,        \* PerformanceCollector.metrics
    returned,       \* the calls of the current run that returned a value
    attempts,       \* the measurement calls made so far, over all runs
    measurements,   \* const measurements: number[] of a validation test
    saved,          \* the files written by saveMetrics
    results,        \* the PerformanceMetrics handed to the report generator
    report,         \* the PerformanceReport generated from them
    pending,        \* the files loadMetricsFromFiles has still to read
    reports,        \* the reports returned since the sample list last changed, the last two
    directory,      \* the files of the performance-reports directory
    exit            \* how the last run of the report script ended

pageVars == <<config, fields, initialValues, lastChange, changes>>
validationVars == <<now, payload, zodResult, yupResult, fieldResult>>
formVars == <<variant, values, touched, errors, formErrors, status, submittedAt,
              lastAttempt, lastValidation>>
collectorVars == <<ci, scenario, metrics, returned, attempts, measurements, saved>>
reportVars == <<results, report>>
generatorVars == <<pending, reports>>
scriptVars == <<directory, exit>>
toolVars == <<collectorVars, reportVars, generatorVars, scriptVars>>
vars == <<config, fields, initialValues, lastChange, changes, now, payload, zodResult, yupResult,
          fieldResult, variant, values, touched, errors, formErrors, status, submittedAt,
          lastAttempt, lastValidation, ci, scenario, metrics, returned, attempts, measurements,
          saved, results, report, pending, reports, directory, exit>>

----------------------------------------------------------------------------
(* Bounds of the model *)

\* the configuration controls are typed with the numbers -1..MaxTyped and
\* with the numbers around the upper limit
MaxTyped == 2

\* number of configuration-control events in a session
MaxChanges == 2

\* number of fields of the configurations whose values are validated
MaxFields == 2

\* length of the texts typed into a text field
MaxLen == 3

\* the clock and the selectable dates range over 0..MaxTime
MaxTime == 1

\* number of options of a select or autocomplete field that are selected
MaxOption == 1

\* number of fields of the configurations whose form is driven
MaxFormFields == 1

----------------------------------------------------------------------------
(* JavaScript strings and numbers *)

Digits == <<"0", "1", "2", "3", "4", "5", "6", "7", "8", "9">>

IsDigit(c) == \E d \in 1..10 : Digits[d] = c

DigitValue(c) == (CHOOSE d \in 1..10 : Digits[d] = c) - 1

\* String(n) for a non-negative integer
RECURSIVE NatToString(_)
NatToString(n) ==
    IF n < 10 THEN <<Digits[n + 1]>>
    ELSE NatToString(n \div 10) \o <<Digits[(n % 10) + 1]>>

\* String(n), the conversion used by template literals
NumberToString(n) ==
    IF n < 0 THEN <<"-">> \o NatToString(0 - n) ELSE NatToString(n)

\* the value of the longest prefix of digits of s, acc being the value so far
RECURSIVE DigitPrefixValue(_, _)
DigitPrefixValue(s, acc) ==
    IF s = <<>> \/ ~IsDigit(Head(s)) THEN acc
    ELSE DigitPrefixValue(Tail(s), acc * 10 + DigitValue(Head(s)))

IsWhitespace(c) == c = " "

RECURSIVE TrimStart(_)
TrimStart(s) ==
    IF s # <<>> /\ IsWhitespace(Head(s)) THEN TrimStart(Tail(s)) ELSE s

RECURSIVE TrimEnd(_)
TrimEnd(s) ==
    IF s # <<>> /\ IsWhitespace(s[Len(s)]) THEN TrimEnd(SubSeq(s, 1, Len(s) - 1)) ELSE s

\* String.prototype.trim
Trim(s) == TrimEnd(TrimStart(s))

\* parseInt(s): leading whitespace is skipped, an optional sign is read, then
\* the longest prefix of decimal digits; NaN when there is no digit
parseInt(s) ==
    LET t == TrimStart(s)
        negative == t # <<>> /\ Head(t) = "-"
        signed == t # <<>> /\ Head(t) \in {"-", "+"}
        body == IF signed THEN Tail(t) ELSE t
    IN  IF body = <<>> \/ ~IsDigit(Head(body))
        THEN [nan |-> TRUE, value |-> 0]
        ELSE [nan |-> FALSE,
              value |-> IF negative THEN 0 - DigitPrefixValue(body, 0)
                        ELSE DigitPrefixValue(body, 0)]

\* parseInt(e.target.value) || 0 : NaN and 0 are falsy
ParseOrZero(s) ==
    LET r == parseInt(s) IN IF r.nan \/ r.value = 0 THEN 0 ELSE r.value

\* Array.prototype.join('.') of an array of strings
RECURSIVE PathJoin(_)
PathJoin(path) ==
    IF path = <<>> THEN <<>>
    ELSE IF Len(path) = 1 THEN path[1]
    ELSE path[1] \o <<".">> \o PathJoin(Tail(path))

Max(a, b) == IF a >= b THEN a ELSE b
Min(a, b) == IF a <= b THEN a ELSE b

----------------------------------------------------------------------------
(* JavaScript values of form fields *)

JSString(s) == [t |-> "string", s |-> s]
JSBoolean(b) == [t |-> "boolean", b |-> b]
JSNull == [t |-> "null"]
JSDate(time) == [t |-> "date", time |-> time]
JSUndefined == [t |-> "undefined"]

EmptyString == <<>>

----------------------------------------------------------------------------
(* types/form.ts *)

FieldTypes == <<"textField", "select", "autocomplete", "checkbox", "datePicker">>

FieldTypeSet == {FieldTypes[i] : i \in 1..Len(FieldTypes)}

SELECT_OPTIONS == <<
    <<"O", "p", "t", "i", "o", "n", " ", "1">>,
    <<"O", "p", "t", "i", "o", "n", " ", "2">>,
    <<"O", "p", "t", "i", "o", "n", " ", "3">>,
    <<"O", "p", "t", "i", "o", "n", " ", "4">>,
    <<"O", "p", "t", "i", "o", "n", " ", "5">> >>

AUTOCOMPLETE_OPTIONS == <<
    <<"A", "p", "p", "l", "e">>,
    <<"B", "a", "n", "a", "n", "a">>,
    <<"C", "h", "e", "r", "r", "y">>,
    <<"D", "a", "t", "e">>,
    <<"E", "l", "d", "e", "r", "b", "e", "r", "r", "y">>,
    <<"F", "i", "g">>,
    <<"G", "r", "a", "p", "e">>,
    <<"H", "o", "n", "e", "y", "d", "e", "w">> >>

----------------------------------------------------------------------------
(* utils/formUtils.ts *)

\* `field_${fieldIndex}`
FieldName(fieldIndex) == <<"f", "i", "e", "l", "d", "_">> \o NumberToString(fieldIndex)

\* the text before the number in the label of a field of the type
LabelPrefix(type) ==
    CASE type = "textField" -> <<"T", "e", "x", "t", " ", "F", "i", "e", "l", "d", " ">>
      [] type = "select" -> <<"S", "e", "l", "e", "c", "t", " ">>
      [] type = "autocomplete" -> <<"A", "u", "t", "o", "c", "o", "m", "p", "l", "e", "t", "e", " ">>
      [] type = "checkbox" -> <<"C", "h", "e", "c", "k", "b", "o", "x", " ">>
      [] type = "datePicker" -> <<"D", "a", "t", "e", " ", "P", "i", "c", "k", "e", "r", " ">>

\* the object pushed by one iteration of a loop of generateFields
NewField(type, fieldIndex, i) ==
    LET base == [id |-> FieldName(fieldIndex),
                 name |-> FieldName(fieldIndex),
                 type |-> type,
                 label |-> LabelPrefix(type) \o NumberToString(i + 1)]
    IN  CASE type = "select" ->
               [id |-> base.id, name |-> base.name, type |-> type,
                label |-> base.label, options |-> SELECT_OPTIONS]
          [] type = "autocomplete" ->
               [id |-> base.id, name |-> base.name, type |-> type,
                label |-> base.label, options |-> AUTOCOMPLETE_OPTIONS]
          [] OTHER -> base

\* for (let i = ...; i < count; i++) { fields.push(...); fieldIndex++ }
\* st is the pair of the fields pushed so far and fieldIndex
RECURSIVE GenerateLoop(_, _, _, _)
GenerateLoop(st, type, i, count) ==
    IF i < count
    THEN GenerateLoop([fields |-> Append(st.fields, NewField(type, st.fieldIndex, i)),
                       fieldIndex |-> st.fieldIndex + 1],
                      type, i + 1, count)
    ELSE st

\* a variant of generateFields whose counter restarts in every loop
generateFieldsCounterReset(cfg) ==
    LET g(type) == GenerateLoop([fields |-> <<>>, fieldIndex |-> 1], type, 0, cfg[type]).fields
    IN  g("textField") \o g("select") \o g("autocomplete") \o g("checkbox") \o g("datePicker")

\* a variant of generateFields that emits the checkbox loop before the select loop
generateFieldsReordered(cfg) ==
    LET s0 == [fields |-> <<>>, fieldIndex |-> 1]
        s1 == GenerateLoop(s0, "textField", 0, cfg.textField)
        s2 == GenerateLoop(s1, "checkbox", 0, cfg.checkbox)
        s3 == GenerateLoop(s2, "autocomplete", 0, cfg.autocomplete)
        s4 == GenerateLoop(s3, "select", 0, cfg.select)
        s5 == GenerateLoop(s4, "datePicker", 0, cfg.datePicker)
    IN  s5.fields

generateFields(cfg) ==
    LET s0 == [fields |-> <<>>, fieldIndex |-> 1]
        s1 == GenerateLoop(s0, "textField", 0, cfg.textField)
        s2 == GenerateLoop(s1, "select", 0, cfg.select)
        s3 == GenerateLoop(s2, "autocomplete", 0, cfg.autocomplete)
        s4 == GenerateLoop(s3, "checkbox", 0, cfg.checkbox)
        s5 == GenerateLoop(s4, "datePicker", 0, cfg.datePicker)
    IN  s5.fields

\* the switch of getInitialValues
InitialValueOf(type) ==
    CASE type \in {"textField", "select", "autocomplete"} -> JSString(EmptyString)
      [] type = "checkbox" -> JSBoolean(FALSE)
      [] type = "datePicker" -> JSNull

\* initialValues[field.name] = ... on the object built so far
SetKey(obj, key, value) ==
    [k \in (DOMAIN obj) \cup {key} |-> IF k = key THEN value ELSE obj[k]]

EmptyObject == [k \in {} |-> JSNull]

\* obj[key] as JavaScript reads it: undefined for a key the object does not have
Read(obj, key) == IF key \in DOMAIN obj THEN obj[key] ELSE JSUndefined

RECURSIVE InitialValuesLoop(_, _, _)
InitialValuesLoop(obj, fs, i) ==
    IF i > Len(fs) THEN obj
    ELSE InitialValuesLoop(SetKey(obj, fs[i].name, InitialValueOf(fs[i].type)), fs, i + 1)

\* a variant of getInitialValues that gives a date field the empty string
getInitialValuesDateAsString(fs) ==
    [n \in {fs[i].name : i \in 1..Len(fs)} |->
        LET f == fs[CHOOSE i \in 1..Len(fs) : fs[i].name = n]
        IN  IF f.type = "checkbox" THEN JSBoolean(FALSE) ELSE JSString(EmptyString)]

getInitialValues(fs) == InitialValuesLoop(EmptyObject, fs, 1)

----------------------------------------------------------------------------
(* components/FieldTypeControls.tsx and pages/TanStackFormPage.tsx *)

MinCount == 0
MaxCount == 20

\* useState<FieldTypeConfig>({...}) of the page
InitialConfig ==
    [textField |-> 3, select |-> 2, autocomplete |-> 2, checkbox |-> 2, datePicker |-> 1]

\* a variant of the clamp without the lower limit
ClampNoLowerLimit(value) == Min(MaxCount, value)

\* Math.max(0, Math.min(20, value))
Clamp(value) == Max(MinCount, Min(MaxCount, value))

\* the numbers typed into a configuration control
TypedNumbers == (-1..MaxTyped) \cup {MaxCount, MaxCount + 1}

\* the texts of a configuration control: numbers, the empty text left by a
\* non-numeric entry, and a decimal
RawInputs ==
    {NumberToString(n) : n \in TypedNumbers} \cup {EmptyString, <<"2", ".", "5">>}

NoChange == [type |-> "none", raw |-> EmptyString, value |-> 0]

\* the fields and initial values are recomputed with the configuration they depend on
Render(cfg) ==
    /\ fields' = generateFields(cfg)
    /\ initialValues' = getInitialValues(fields')

\* handleFieldChange(fieldType, parseInt(raw) || 0) and onChange(newConfig),
\* the setFieldTypeConfig of the page: the page renders with the new configuration
ConfigChanged(fieldType, raw) ==
    LET value == ParseOrZero(raw)
        newConfig == [config EXCEPT ![fieldType] = Clamp(value)]
    IN  /\ changes < MaxChanges
        /\ changes' = changes + 1
        /\ config' = newConfig
        /\ Render(newConfig)
        /\ lastChange' = [type |-> fieldType, raw |-> raw, value |-> value]

\* onChange of a configuration control of a page whose form is not looked at
handleFieldChange(fieldType, raw) ==
    /\ ConfigChanged(fieldType, raw)
    /\ UNCHANGED <<toolVars, validationVars, formVars>>

NoResult == [ran |-> FALSE]

NoAttempt == [n |-> 0]

\* no form component is mounted
\* no test is run
CollectorIdle ==
    /\ ci = FALSE
    /\ scenario = [kind |-> "none"]
    /\ metrics = <<>>
    /\ returned = <<>>
    /\ attempts = <<>>
    /\ measurements = <<>>
    /\ saved = <<>>

\* no report is generated
ReportIdle ==
    /\ results = <<>>
    /\ report = JSNull

\* no generator loads files and no report script has run
GeneratorIdle ==
    /\ pending = <<>>
    /\ reports = <<>>
    /\ directory = <<>>
    /\ exit = JSNull

ToolsIdle == CollectorIdle /\ ReportIdle /\ GeneratorIdle

FormIdle ==
    /\ variant = "none"
    /\ values = EmptyObject
    /\ touched = {}
    /\ errors = EmptyObject
    /\ formErrors = <<>>
    /\ status = JSNull
    /\ submittedAt = JSNull
    /\ lastAttempt = NoAttempt
    /\ lastValidation = NoResult

ValidationIdle ==
    /\ now = 0
    /\ payload = EmptyObject
    /\ zodResult = NoResult
    /\ yupResult = NoResult
    /\ fieldResult = NoResult

PageInit ==
    /\ config = InitialConfig
    /\ fields = generateFields(InitialConfig)
    /\ initialValues = getInitialValues(generateFields(InitialConfig))
    /\ lastChange = NoChange
    /\ changes = 0
    /\ ValidationIdle
    /\ FormIdle
    /\ ToolsIdle

PageNext ==
    \E fieldType \in FieldTypeSet, raw \in RawInputs : handleFieldChange(fieldType, raw)

\* the form page: configuration controls, generated fields, initial values
Spec == PageInit /\ [][PageNext]_vars

----------------------------------------------------------------------------
(* Validation messages *)

MsgRequired == "Field is required"
MsgMin3 == "Field must be at least 3 characters"
MsgSelect == "Please select an option"
MsgAutocomplete == "Please select or enter an option"
MsgAtLeastOne == "At least one field must be filled"
MsgFuture == "Selected date must be in the future"
MsgZodRequired == "Required"
MsgFixErrors == "Please fix the validation errors above"

\* the values read below are the values the form components store: a string
\* for a textField, select or autocomplete field, a boolean for a checkbox
\* and a Date or null for a datePicker

IsRequiredType(type) == type \in {"textField", "select", "autocomplete"}

\* typeof value === 'string' && value.trim().length > 0
IsFilledString(value) == value.t = "string" /\ Len(Trim(value.s)) > 0

\* fields.some(field => field.type === 'textField' || ... )
hasRequiredFields(fs) == \E i \in 1..Len(fs) : IsRequiredType(fs[i].type)

\* fields.some(field => required type && filled string)
hasFilledRequiredField(fs, data) ==
    \E i \in 1..Len(fs) : IsRequiredType(fs[i].type) /\ IsFilledString(Read(data, fs[i].name))

\* dateValue instanceof Date && dateValue <= now
IsDateNotAfter(value, time) == value.t = "date" /\ value.time <= time

\* the concatenation of the sequences of a sequence
RECURSIVE Flatten(_)
Flatten(seqs) == IF seqs = <<>> THEN <<>> ELSE Head(seqs) \o Flatten(Tail(seqs))

----------------------------------------------------------------------------
(* validation/zodSchemas.ts *)

FieldsSegment == <<"f", "i", "e", "l", "d", "s">>

\* the issues of zodFieldSchemas[type] for a value at a path: every failing
\* check of a string adds its issue; undefined where a string or a boolean is
\* expected is the one issue 'Required', which ends the parse of the value
zodFieldSchemas(type, value, path) ==
    IF value.t = "undefined"
    THEN IF type = "datePicker" THEN <<>>
         ELSE <<[path |-> path, message |-> MsgZodRequired]>>
    ELSE
    CASE type = "textField" ->
            (IF Len(value.s) < 1 THEN <<[path |-> path, message |-> MsgRequired]>> ELSE <<>>)
            \o (IF Len(value.s) < 3 THEN <<[path |-> path, message |-> MsgMin3]>> ELSE <<>>)
      [] type = "select" ->
            IF Len(value.s) < 1 THEN <<[path |-> path, message |-> MsgSelect]>> ELSE <<>>
      [] type = "autocomplete" ->
            IF Len(value.s) < 1 THEN <<[path |-> path, message |-> MsgAutocomplete]>> ELSE <<>>
      [] type = "checkbox" -> <<>>
      [] type = "datePicker" -> <<>>

\* z.object({ fields: z.object(schemaShape) }): the issues of the fields in the order of the shape
createZodFormSchema(fs, data) ==
    LET issuesOf(f) == zodFieldSchemas(f.type, Read(data, f.name), <<FieldsSegment, f.name>>)
    IN  Flatten([i \in 1..Len(fs) |-> issuesOf(fs[i])])

\* a variant of the first refinement that does not trim
ZodCrossFieldRefinementNoTrim(fs, data) ==
    IF hasRequiredFields(fs)
       /\ ~\E i \in 1..Len(fs) : IsRequiredType(fs[i].type) /\ Len(Read(data, fs[i].name).s) > 0
    THEN <<[path |-> <<FieldsSegment>>, message |-> MsgAtLeastOne]>>
    ELSE <<>>

\* the first refinement: at least one required field is filled
ZodCrossFieldRefinement(fs, data) ==
    IF hasRequiredFields(fs) /\ ~hasFilledRequiredField(fs, data)
    THEN <<[path |-> <<FieldsSegment>>, message |-> MsgAtLeastOne]>>
    ELSE <<>>

\* a variant of the second refinement with a strict comparison
ZodDateRefinementStrict(fs, data, time) ==
    IF \E i \in 1..Len(fs) :
          fs[i].type = "datePicker" /\ Read(data, fs[i].name).t = "date" /\ Read(data, fs[i].name).time < time
    THEN <<[path |-> <<FieldsSegment>>, message |-> MsgFuture]>>
    ELSE <<>>

\* the second refinement: no selected date is at or before now; one issue at the path ['fields']
ZodDateRefinement(fs, data, time) ==
    IF \E i \in 1..Len(fs) : fs[i].type = "datePicker" /\ IsDateNotAfter(Read(data, fs[i].name), time)
    THEN <<[path |-> <<FieldsSegment>>, message |-> MsgFuture]>>
    ELSE <<>>

\* the issues of createZodFormSchemaWithCrossValidation(config) for { fields: data }
\* validated at the time `time`; both refinements run after the base schema
createZodFormSchemaWithCrossValidation(fs, data, time) ==
    LET base == createZodFormSchema(fs, data)
    IN  IF \E k \in 1..Len(base) : base[k].message = MsgZodRequired
        THEN base
        ELSE base \o ZodCrossFieldRefinement(fs, data) \o ZodDateRefinement(fs, data, time)

\* the function returned by getZodFieldValidator(fieldType), applied to { value }:
\* the message, or NoError for undefined
NoError == "undefined"

IsEmptyValue(value) == (value.t = "string" /\ value.s = <<>>) \/ value.t \in {"null", "undefined"}

\* a variant of getZodFieldValidator whose length limit is 2
getZodFieldValidatorMin2(fieldType, value) ==
    IF fieldType = "textField" /\ ~IsEmptyValue(value) /\ value.t = "string" /\ Len(value.s) < 2
    THEN MsgMin3
    ELSE IF fieldType = "textField" /\ IsEmptyValue(value) THEN MsgRequired
    ELSE NoError

getZodFieldValidator(fieldType, value) ==
    IF IsEmptyValue(value) /\ ~IsRequiredType(fieldType)
    THEN NoError
    ELSE CASE fieldType = "textField" ->
                 IF IsEmptyValue(value) THEN MsgRequired
                 ELSE IF value.t = "string" /\ Len(value.s) < 3 THEN MsgMin3
                 ELSE NoError
           [] fieldType = "select" -> IF IsEmptyValue(value) THEN MsgSelect ELSE NoError
           [] fieldType = "autocomplete" -> IF IsEmptyValue(value) THEN MsgAutocomplete ELSE NoError
           [] fieldType = "checkbox" -> NoError
           [] fieldType = "datePicker" -> NoError
           [] OTHER -> NoError

----------------------------------------------------------------------------
(* validation/yupSchemas.ts *)

\* `fields.${name}`
YupFieldPath(name) == FieldsSegment \o <<".">> \o name

\* the errors of yupFieldSchemas[type] for a value at a path, one per failing
\* test in the order of the tests (abortEarly: false)
yupFieldSchemas(type, value, path) ==
    CASE type = "textField" ->
            IF value.t = "undefined" THEN <<[path |-> path, message |-> MsgRequired]>>
            ELSE (IF Len(value.s) = 0 THEN <<[path |-> path, message |-> MsgRequired]>> ELSE <<>>)
                 \o (IF Len(value.s) < 3 THEN <<[path |-> path, message |-> MsgMin3]>> ELSE <<>>)
      [] type = "select" ->
            IF value.t = "undefined" \/ Len(value.s) = 0
            THEN <<[path |-> path, message |-> MsgSelect]>> ELSE <<>>
      [] type = "autocomplete" ->
            IF value.t = "undefined" \/ Len(value.s) = 0
            THEN <<[path |-> path, message |-> MsgAutocomplete]>> ELSE <<>>
      [] type = "checkbox" -> <<>>
      [] type = "datePicker" -> <<>>

\* Yup.object().shape({ fields: Yup.object().shape(schemaShape) })
createYupFormSchema(fs, data) ==
    LET errorsOf(f) == yupFieldSchemas(f.type, Read(data, f.name), YupFieldPath(f.name))
    IN  Flatten([i \in 1..Len(fs) |-> errorsOf(fs[i])])

\* the errors pushed by the test 'form-validation' and thrown as one ValidationError
YupFormValidationTest(fs, data, time) ==
    LET crossField ==
            IF hasRequiredFields(fs) /\ ~hasFilledRequiredField(fs, data)
            THEN <<[path |-> FieldsSegment, message |-> MsgAtLeastOne]>>
            ELSE <<>>
        dateError(f) ==
            IF f.type = "datePicker" /\ IsDateNotAfter(Read(data, f.name), time)
            THEN <<[path |-> YupFieldPath(f.name), message |-> MsgFuture]>>
            ELSE <<>>
    IN  crossField \o Flatten([i \in 1..Len(fs) |-> dateError(fs[i])])

\* the inner errors of createYupFormSchemaWithCrossValidation(config).validate(
\* { fields: data }, { abortEarly: false }) at the time `time`: the errors of
\* the fields, then the errors of the test of the object
createYupFormSchemaWithCrossValidation(fs, data, time) ==
    createYupFormSchema(fs, data) \o YupFormValidationTest(fs, data, time)

\* getYupFieldValidator(fieldType).validate(value) stops at the first failing test
getYupFieldValidator(fieldType, value) ==
    IF fieldType \in FieldTypeSet
    THEN yupFieldSchemas(fieldType, value, <<>>)
    ELSE <<>>

\* the function returned by createFieldValidator(fieldType), applied to value:
\* error.message of the ValidationError, or NoError for undefined
createFieldValidator(fieldType, value) ==
    LET failed == getYupFieldValidator(fieldType, value)
    IN  IF failed = <<>> THEN NoError ELSE failed[1].message

----------------------------------------------------------------------------
(* The validators applied to the values of a configuration *)

\* a text of n characters c
RECURSIVE Repeat(_, _)
Repeat(c, n) == IF n = 0 THEN <<>> ELSE <<c>> \o Repeat(c, n - 1)

\* the texts of at most n characters made of spaces followed by letters
Texts(n) == {Repeat(" ", i) \o Repeat("a", j) : i \in 0..n, j \in 0..n} \cap
            UNION {[1..k -> {" ", "a"}] : k \in 0..n}

\* the values a field of the type can hold in its form
FieldValues(type) ==
    CASE type = "textField" -> {JSString(t) : t \in Texts(MaxLen)}
      [] type = "select" ->
            {JSString(EmptyString)} \cup {JSString(SELECT_OPTIONS[k]) : k \in 1..MaxOption}
      [] type = "autocomplete" ->
            {JSString(EmptyString)} \cup {JSString(AUTOCOMPLETE_OPTIONS[k]) : k \in 1..MaxOption}
      [] type = "checkbox" -> {JSBoolean(FALSE), JSBoolean(TRUE)}
      [] type = "datePicker" -> {JSNull} \cup {JSDate(d) : d \in 0..MaxTime}

AllFieldValues == UNION {FieldValues(t) : t \in FieldTypeSet}

FieldNames(fs) == {fs[i].name : i \in 1..Len(fs)}

FieldOf(fs, name) == fs[CHOOSE i \in 1..Len(fs) : fs[i].name = name]

\* the FormValues.fields objects of a field sequence
Payloads(fs) ==
    {p \in [FieldNames(fs) -> AllFieldValues] :
        \A i \in 1..Len(fs) : p[fs[i].name] \in FieldValues(fs[i].type)}

\* the configurations of at most MaxFields fields
SmallConfigs ==
    {c \in [FieldTypeSet -> 0..MaxFields] :
        c.textField + c.select + c.autocomplete + c.checkbox + c.datePicker <= MaxFields}

PageIdle(cfg) ==
    /\ config = cfg
    /\ fields = generateFields(cfg)
    /\ initialValues = getInitialValues(generateFields(cfg))
    /\ lastChange = NoChange
    /\ changes = 0

ValidationInit ==
    /\ \E cfg \in SmallConfigs : PageIdle(cfg)
    /\ now \in 0..MaxTime
    /\ payload \in Payloads(fields)
    /\ zodResult = NoResult
    /\ yupResult = NoResult
    /\ fieldResult = NoResult
    /\ FormIdle
    /\ ToolsIdle

\* formSchema.parseAsync({ fields: payload })
ZodValidate ==
    /\ variant = "none"
    /\ ~zodResult.ran
    /\ zodResult' = [ran |-> TRUE,
                     issues |-> createZodFormSchemaWithCrossValidation(fields, payload, now)]
    /\ UNCHANGED <<toolVars, pageVars, now, payload, yupResult, fieldResult, formVars>>

\* validationSchema.validate({ fields: payload }, { abortEarly: false })
YupValidate ==
    /\ zodResult.ran /\ ~yupResult.ran
    /\ yupResult' = [ran |-> TRUE,
                     inner |-> createYupFormSchemaWithCrossValidation(fields, payload, now)]
    /\ UNCHANGED <<toolVars, pageVars, now, payload, zodResult, fieldResult, formVars>>

\* the single-field validators of both builders applied to the value of every
\* field; the three validators are applied one after the other
FieldValidate ==
    /\ yupResult.ran /\ ~fieldResult.ran
    /\ fieldResult' =
          [ran |-> TRUE,
           zod |-> [n \in FieldNames(fields) |->
                       getZodFieldValidator(FieldOf(fields, n).type, payload[n])],
           yup |-> [n \in FieldNames(fields) |->
                       createFieldValidator(FieldOf(fields, n).type, payload[n])]]
    /\ UNCHANGED <<toolVars, pageVars, now, payload, zodResult, yupResult, formVars>>

ValidationNext == ZodValidate \/ YupValidate \/ FieldValidate

SpecValidation == ValidationInit /\ [][ValidationNext]_vars

----------------------------------------------------------------------------
(* components/FormB/FormikFormComponent.tsx *)

EmptyMap == [k \in {} |-> ""]

\* obj[key] = value
Put(obj, key, value) ==
    [k \in (DOMAIN obj) \cup {key} |-> IF k = key THEN value ELSE obj[k]]

\* path b is path a or lies below it
IsAtOrBelow(a, b) ==
    \/ b = a
    \/ Len(b) > Len(a) /\ SubSeq(b, 1, Len(a) + 1) = a \o <<".">>

\* performance.now(): the time since the page was opened, one unit before time 0 of the clock
PerformanceNow(time) == time + 1

\* Formik hands the values to the validationSchema with '' replaced by undefined
prepareDataForValidation(vals) ==
    [n \in DOMAIN vals |->
        IF vals[n].t = "string" /\ vals[n].s = <<>> THEN JSUndefined ELSE vals[n]]

\* yupToFormErrors: the first message of a path is kept; a message at a path
\* is dropped when an error is set below it
RECURSIVE yupToFormErrors(_, _)
yupToFormErrors(errs, inner) ==
    IF inner = <<>> THEN errs
    ELSE LET err == Head(inner)
             present == \E p \in DOMAIN errs : IsAtOrBelow(err.path, p)
             kept == {p \in DOMAIN errs : ~IsAtOrBelow(p, err.path)}
             next == IF present THEN errs
                     ELSE Put([p \in kept |-> errs[p]], err.path, err.message)
         IN  yupToFormErrors(next, Tail(inner))

\* error.inner?.forEach(err => { if (err.path) fieldErrors[err.path] = err.message })
RECURSIVE FieldErrorsOfInner(_, _)
FieldErrorsOfInner(fieldErrors, inner) ==
    IF inner = <<>> THEN fieldErrors
    ELSE FieldErrorsOfInner(
            IF Head(inner).path # <<>>
            THEN Put(fieldErrors, Head(inner).path, Head(inner).message)
            ELSE fieldErrors,
            Tail(inner))

\* error.errors of the ValidationError of a validation with abortEarly: false
MessagesOf(inner) == [k \in 1..Len(inner) |-> inner[k].message]

\* a variant of customValidate whose catch returns no field error
customValidateEmptyCatch(fs, vals, time) ==
    LET inner == createYupFormSchemaWithCrossValidation(fs, vals, time)
    IN  [failed |-> inner # <<>>, escaped |-> FALSE, fields |-> EmptyMap, form |-> <<>>]

\* customValidate(values): validationSchema.validate in a try; the catch
\* stores error.errors in formErrors and returns the field errors by path
customValidate(fs, vals, time) ==
    LET inner == createYupFormSchemaWithCrossValidation(fs, vals, time)
    IN  IF inner = <<>>
        THEN [failed |-> FALSE, escaped |-> FALSE, fields |-> EmptyMap, form |-> <<>>]
        ELSE [failed |-> TRUE, escaped |-> FALSE,
              fields |-> FieldErrorsOfInner(EmptyMap, inner),
              form |-> MessagesOf(inner)]

\* the validation Formik runs on change, on blur and before onSubmit: the
\* validationSchema and the validate function, their errors merged
FormikRunAllValidations(fs, vals, time) ==
    [schema |-> yupToFormErrors(EmptyMap,
                    createYupFormSchemaWithCrossValidation(fs, prepareDataForValidation(vals), time)),
     validate |-> customValidate(fs, vals, time).fields]

\* Object.keys(combinedErrors).length === 0
FormikIsValid(errs) == DOMAIN errs.schema = {} /\ DOMAIN errs.validate = {}

\* a variant of the onSubmit option that does not validate
FormikOnSubmitNoValidation(fs, vals, time) ==
    [failed |-> FALSE, escaped |-> FALSE, formErrors |-> <<>>, status |-> JSNull,
     submittedAt |-> [t |-> "number", n |-> PerformanceNow(time)], called |-> TRUE]

\* the onSubmit option of useFormik: validate in a try, then record the
\* time and call the onSubmit prop; the catch stores the messages and the status
FormikOnSubmit(fs, vals, time) ==
    LET inner == createYupFormSchemaWithCrossValidation(fs, vals, time)
    IN  IF inner = <<>>
        THEN [failed |-> FALSE, escaped |-> FALSE, formErrors |-> <<>>, status |-> JSNull,
              submittedAt |-> [t |-> "number", n |-> PerformanceNow(time)], called |-> TRUE]
        ELSE [failed |-> TRUE, escaped |-> FALSE, formErrors |-> MessagesOf(inner),
              status |-> [t |-> "message", m |-> MsgFixErrors], submittedAt |-> submittedAt, called |-> FALSE]

\* the times at which a handler that awaits can resume
LaterTimes == {t \in {now, now + 1} : t <= MaxTime}

\* a submit attempt: whether validators ran, the values and the time of its
\* last validation, the number of calls of the onSubmit prop, the values
\* handed to it and whether setSubmittedAt was called
Attempt(vals, time, validated, called) ==
    [n |-> 1, validated |-> validated, values |-> vals, time |-> time,
     calls |-> IF called THEN 1 ELSE 0,
     recorded |-> called,
     delivered |-> IF called THEN [t |-> "object", fields |-> vals] ELSE JSNull]

\* the outcome of the validation an event ran: whether it failed, whether
\* the failure left the handler as an exception, and the errors it produced
Validation(cause, time, failed, escaped, fieldErrors, formMessages) ==
    [ran |-> TRUE, cause |-> cause, time |-> time, failed |-> failed, escaped |-> escaped,
     fields |-> fieldErrors, form |-> formMessages]

FormikValidated(vals, time, cause) ==
    LET v == customValidate(fields, vals, time)
    IN  /\ errors' = FormikRunAllValidations(fields, vals, time)
        /\ formErrors' = v.form
        /\ lastValidation' = Validation(cause, time, v.failed, v.escaped, v.fields, v.form)

\* formik.handleChange / formik.setFieldValue with validateOnChange
FormikChange(name, value) ==
    /\ variant = "formik"
    /\ values' = SetKey(values, name, value)
    /\ FormikValidated(values', now, "change")
    /\ lastAttempt' = NoAttempt
    /\ UNCHANGED <<toolVars, pageVars, validationVars, variant, touched, status, submittedAt>>

\* formik.handleBlur / formik.setFieldTouched with validateOnBlur
FormikBlur(name) ==
    /\ variant = "formik"
    /\ touched' = touched \cup {name}
    /\ FormikValidated(values, now, "blur")
    /\ lastAttempt' = NoAttempt
    /\ UNCHANGED <<toolVars, pageVars, validationVars, variant, values, status, submittedAt>>

\* formik.handleSubmit: every field is touched, the validations run and, when
\* they return no error, the onSubmit option runs
FormikSubmit ==
    /\ variant = "formik"
    /\ touched' = DOMAIN values
    /\ errors' = FormikRunAllValidations(fields, values, now)
    /\ IF ~FormikIsValid(errors')
       THEN LET v == customValidate(fields, values, now)
            IN  /\ formErrors' = v.form
                /\ lastValidation' = Validation("submit", now, v.failed, v.escaped, v.fields, v.form)
                /\ lastAttempt' = Attempt(values, now, TRUE, FALSE)
                /\ UNCHANGED <<now, status, submittedAt>>
       ELSE \E later \in LaterTimes :
            LET s == FormikOnSubmit(fields, values, later)
            IN  /\ now' = later
                /\ formErrors' = s.formErrors
                /\ status' = s.status
                /\ submittedAt' = s.submittedAt
                /\ lastValidation' = Validation("submit", later, s.failed, s.escaped, EmptyMap,
                                                s.formErrors)
                /\ lastAttempt' = Attempt(values, later, TRUE, s.called)
    /\ UNCHANGED <<toolVars, pageVars, payload, zodResult, yupResult, fieldResult, variant, values>>

----------------------------------------------------------------------------
(* components/FormA/TanStackFormComponent.tsx *)

\* the name of the form.Field of a field: `fields.${fieldName}`
TanStackFieldName(name) == PathJoin(<<FieldsSegment, name>>)

\* the issues of a schema given to TanStack Form as a validator: the messages
\* of the issues of each path, the path joined with '.'
RECURSIVE IssuesByPath(_, _)
IssuesByPath(acc, issues) ==
    IF issues = <<>> THEN acc
    ELSE LET p == PathJoin(Head(issues).path)
             before == IF p \in DOMAIN acc THEN acc[p] ELSE <<>>
         IN  IssuesByPath(Put(acc, p, Append(before, Head(issues).message)), Tail(issues))

\* zodError.errors?.reduce((acc, err) => { acc[err.path.join('.')] = err.message; return acc }, {})
RECURSIVE ReduceErrors(_, _)
ReduceErrors(acc, issues) ==
    IF issues = <<>> THEN acc
    ELSE ReduceErrors(Put(acc, PathJoin(Head(issues).path), Head(issues).message), Tail(issues))

\* validators.onChange: formSchema, run at the time `time`
TanStackFormOnChange(fs, vals, time) ==
    IssuesByPath(EmptyMap, createZodFormSchemaWithCrossValidation(fs, vals, time))

\* validators.onSubmitAsync: formSchema.parseAsync in a try; the catch
\* returns the form message and the messages by joined path
onSubmitAsync(fs, vals, time) ==
    LET issues == createZodFormSchemaWithCrossValidation(fs, vals, time)
    IN  IF issues = <<>>
        THEN [failed |-> FALSE, escaped |-> FALSE, error |-> JSUndefined]
        ELSE [failed |-> TRUE, escaped |-> FALSE,
              error |-> [t |-> "error", form |-> MsgFixErrors,
                         fields |-> ReduceErrors(EmptyMap, issues)]]

\* the errors of a field: of its own onChange validator or of the form's
\* onChange validator, and of the form's onSubmitAsync validator
NoFieldError == [source |-> "none"]
NoFieldErrors == [change |-> NoFieldError, submit |-> NoError]

\* the errors TanStack Form holds when no validator has run
TanStackNoErrors(fs) ==
    [form |-> EmptyMap, submit |-> JSUndefined, fields |-> [n \in FieldNames(fs) |-> NoFieldErrors]]

\* state.isValid: no error of the form and no error of a field
TanStackIsValid(errs) ==
    /\ DOMAIN errs.form = {}
    /\ errs.submit = JSUndefined
    /\ \A n \in DOMAIN errs.fields :
          errs.fields[n].change = NoFieldError /\ errs.fields[n].submit = NoError

\* the error of the form's validator for a field replaces the error of the
\* field; without one, an error that came from the form's validator is removed
FormLevelFieldError(previous, formIssues, name) ==
    IF TanStackFieldName(name) \in DOMAIN formIssues
    THEN [source |-> "form", issues |-> formIssues[TanStackFieldName(name)]]
    ELSE IF previous.source = "form" THEN NoFieldError ELSE previous

\* the error of the field's own validator comes before the error the form's
\* validator has for the field
FieldLevelFieldError(fieldType, value, formIssues, name) ==
    LET message == getZodFieldValidator(fieldType, value)
    IN  IF message # NoError THEN [source |-> "field", message |-> message]
        ELSE IF TanStackFieldName(name) \in DOMAIN formIssues
             THEN [source |-> "form", issues |-> formIssues[TanStackFieldName(name)]]
             ELSE NoFieldError

\* field.handleChange(value): the field is touched, the form's onChange
\* validator and then the field's onChange validator run; a validation
\* without error removes the error of the last submit
TanStackChange(name, value) ==
    /\ variant = "tanstack"
    /\ values' = SetKey(values, name, value)
    /\ touched' = touched \cup {name}
    /\ LET formIssues == TanStackFormOnChange(fields, values', now)
           own == FieldLevelFieldError(FieldOf(fields, name).type, value, formIssues, name)
       IN  /\ errors' =
                [form |-> formIssues,
                 submit |-> IF DOMAIN formIssues # {} THEN errors.submit ELSE JSUndefined,
                 fields |-> [n \in DOMAIN errors.fields |->
                    IF n = name
                    THEN [change |-> own,
                          submit |-> IF own.source # "none" THEN errors.fields[n].submit
                                     ELSE NoError]
                    ELSE [change |-> FormLevelFieldError(errors.fields[n].change, formIssues, n),
                          submit |-> errors.fields[n].submit]]]
           /\ lastValidation' = Validation("change", now, DOMAIN formIssues # {}, FALSE,
                                           formIssues, <<>>)
    /\ lastAttempt' = NoAttempt
    /\ UNCHANGED <<toolVars, pageVars, validationVars, variant, formErrors, status, submittedAt>>

\* field.handleBlur(): the field is touched; neither the form nor the field
\* has an onBlur validator, so none runs and the error of the last submit is removed
TanStackBlur(name) ==
    /\ variant = "tanstack"
    /\ touched' = touched \cup {name}
    /\ errors' = [errors EXCEPT !.submit = JSUndefined, !.fields[name].submit = NoError]
    /\ lastValidation' = NoResult
    /\ lastAttempt' = NoAttempt
    /\ UNCHANGED <<toolVars, pageVars, validationVars, variant, values, formErrors, status, submittedAt>>

\* the errors of the fields after validateAllFields('submit')
TanStackValidateAllFields(fs, vals) ==
    [n \in FieldNames(fs) |->
        [change |-> FieldLevelFieldError(FieldOf(fs, n).type, Read(vals, n), EmptyMap, n),
         submit |-> NoError]]

\* the messages of the failing fields by the name of their form.Field
TanStackFieldMessages(fieldErrors) ==
    LET failing == {n \in DOMAIN fieldErrors : fieldErrors[n].change.source = "field"}
    IN  [p \in {TanStackFieldName(n) : n \in failing} |->
            fieldErrors[CHOOSE n \in failing : TanStackFieldName(n) = p].change.message]

\* form.handleSubmit(): every field is touched; a form that holds an error is
\* not submitted; the validators of the fields run, then the form's onChange
\* validator, then onSubmitAsync, each only when the ones before found no
\* error; onSubmit runs when none found an error
TanStackSubmit ==
    /\ variant = "tanstack"
    /\ touched' = touched \cup FieldNames(fields)
    /\ IF ~TanStackIsValid(errors)
       THEN /\ lastAttempt' = Attempt(values, now, FALSE, FALSE)
            /\ lastValidation' = NoResult
            /\ UNCHANGED <<now, errors, submittedAt>>
       ELSE LET mounted == TanStackValidateAllFields(fields, values)
                own == [n \in DOMAIN errors.fields |->
                           IF n \in DOMAIN mounted THEN mounted[n] ELSE errors.fields[n]]
                formIssues == TanStackFormOnChange(fields, values, now)
            IN  IF \E n \in DOMAIN own : own[n].change.source # "none"
                THEN /\ errors' = [errors EXCEPT !.fields = own]
                     /\ lastValidation' = Validation("submit", now, TRUE, FALSE,
                                                     TanStackFieldMessages(own), <<>>)
                     /\ lastAttempt' = Attempt(values, now, TRUE, FALSE)
                     /\ UNCHANGED <<now, submittedAt>>
                ELSE IF DOMAIN formIssues # {}
                THEN /\ errors' =
                          [errors EXCEPT !.form = formIssues,
                              !.fields = [n \in DOMAIN own |->
                                  [change |-> FormLevelFieldError(own[n].change, formIssues, n),
                                   submit |-> NoError]]]
                     /\ lastValidation' = Validation("submit", now, TRUE, FALSE, formIssues, <<>>)
                     /\ lastAttempt' = Attempt(values, now, TRUE, FALSE)
                     /\ UNCHANGED <<now, submittedAt>>
                ELSE \E later \in LaterTimes :
                     LET r == onSubmitAsync(fields, values, later)
                     IN  /\ now' = later
                         /\ IF r.error # JSUndefined
                            THEN /\ errors' =
                                      [errors EXCEPT !.submit = r.error,
                                          !.fields = [n \in DOMAIN own |->
                                              [change |-> own[n].change,
                                               submit |->
                                                  IF TanStackFieldName(n) \in DOMAIN r.error.fields
                                                  THEN r.error.fields[TanStackFieldName(n)]
                                                  ELSE NoError]]]
                                 /\ lastValidation' = Validation("submit", later, r.failed, r.escaped,
                                                                 r.error.fields, <<r.error.form>>)
                                 /\ lastAttempt' = Attempt(values, later, TRUE, FALSE)
                                 /\ UNCHANGED submittedAt
                            ELSE /\ errors' = [errors EXCEPT !.fields = own]
                                 /\ submittedAt' = [t |-> "number", n |-> PerformanceNow(later)]
                                 /\ lastValidation' = Validation("submit", later, r.failed, r.escaped,
                                                                 EmptyMap, <<>>)
                                 /\ lastAttempt' = Attempt(values, later, TRUE, TRUE)
    /\ UNCHANGED <<toolVars, pageVars, payload, zodResult, yupResult, fieldResult, variant, values,
                   formErrors, status>>

----------------------------------------------------------------------------
(* A form component mounted by its page on a configuration *)

\* the configurations of at most MaxFormFields fields
FormConfigs ==
    {c \in SmallConfigs :
        c.textField + c.select + c.autocomplete + c.checkbox + c.datePicker <= MaxFormFields}

\* the page with one of the form components mounted on a configuration
FormInit ==
    /\ \E cfg \in FormConfigs : PageIdle(cfg)
    /\ now = 0
    /\ payload = EmptyObject
    /\ zodResult = NoResult
    /\ yupResult = NoResult
    /\ fieldResult = NoResult
    /\ ToolsIdle
    /\ variant \in {"tanstack", "formik"}
    /\ values = initialValues
    /\ touched = {}
    /\ errors = IF variant = "tanstack" THEN TanStackNoErrors(fields)
                ELSE [schema |-> EmptyMap, validate |-> EmptyMap]
    /\ formErrors = <<>>
    /\ status = JSNull
    /\ submittedAt = JSNull
    /\ lastAttempt = NoAttempt
    /\ lastValidation = NoResult

\* the clock advances
Tick ==
    /\ variant # "none"
    /\ now < MaxTime
    /\ now' = now + 1
    /\ UNCHANGED <<toolVars, pageVars, payload, zodResult, yupResult, fieldResult, formVars>>

FormNext ==
    \/ Tick
    \/ \E i \in 1..Len(fields) : \E v \in FieldValues(fields[i].type) :
          \/ TanStackChange(fields[i].name, v)
          \/ FormikChange(fields[i].name, v)
    \/ \E i \in 1..Len(fields) : TanStackBlur(fields[i].name) \/ FormikBlur(fields[i].name)
    \/ TanStackSubmit
    \/ FormikSubmit

SpecForm == FormInit /\ [][FormNext]_vars

----------------------------------------------------------------------------
(* A form component whose page changes the configuration *)

\* a value of the kind the input of a field type holds
KindFits(type, value) ==
    CASE type \in {"textField", "select", "autocomplete"} -> value.t = "string"
      [] type = "checkbox" -> value.t = "boolean"
      [] type = "datePicker" -> value.t \in {"null", "date"}

\* useForm on a render with new options, form.update(opts): the values are
\* replaced by the new defaultValues only while no field is touched; the
\* form.Field of a new name is mounted without error, and the state of the
\* fields that are no longer rendered is kept
TanStackUpdate ==
    /\ values' = IF touched = {} THEN initialValues' ELSE values
    /\ errors' = [errors EXCEPT !.fields =
                    [n \in DOMAIN errors.fields \cup FieldNames(fields') |->
                        IF n \in DOMAIN errors.fields THEN errors.fields[n] ELSE NoFieldErrors]]
    /\ UNCHANGED <<touched, formErrors, status, submittedAt>>

\* useFormik on a render with new initialValues: without enableReinitialize
\* the values, the touched fields and the errors stay as they are
FormikRerender ==
    UNCHANGED <<values, touched, errors, formErrors, status, submittedAt>>

\* onChange of a configuration control of a page that shows a form
Reconfigure(fieldType, raw) ==
    /\ variant # "none"
    /\ ConfigChanged(fieldType, raw)
    /\ config' \in SmallConfigs
    /\ IF variant = "tanstack" THEN TanStackUpdate ELSE FormikRerender
    /\ \A i \in 1..Len(fields') :
          fields'[i].name \in DOMAIN values'
              => KindFits(fields'[i].type, values'[fields'[i].name])
    /\ lastAttempt' = NoAttempt
    /\ lastValidation' = NoResult
    /\ UNCHANGED <<toolVars, validationVars, variant>>

\* the counts typed into a configuration control of a page that shows a form
ReconfigInputs == {NumberToString(n) : n \in 0..MaxFields}

\* the value a field has before it is filled and a value that fills it validly
FillValues(type) ==
    CASE type = "textField" -> {JSString(EmptyString), JSString(Repeat("a", MaxLen))}
      [] type = "select" -> {JSString(EmptyString), JSString(SELECT_OPTIONS[1])}
      [] type = "autocomplete" -> {JSString(EmptyString), JSString(AUTOCOMPLETE_OPTIONS[1])}
      [] type = "checkbox" -> {JSBoolean(FALSE), JSBoolean(TRUE)}
      [] type = "datePicker" -> {JSNull, JSDate(MaxTime)}

\* the page with one of the form components mounted on its first configuration
ReconfigInit ==
    /\ \E cfg \in SmallConfigs : PageIdle(cfg)
    /\ ValidationIdle
    /\ ToolsIdle
    /\ variant \in {"tanstack", "formik"}
    /\ values = initialValues
    /\ touched = {}
    /\ errors = IF variant = "tanstack" THEN TanStackNoErrors(fields)
                ELSE [schema |-> EmptyMap, validate |-> EmptyMap]
    /\ formErrors = <<>>
    /\ status = JSNull
    /\ submittedAt = JSNull
    /\ lastAttempt = NoAttempt
    /\ lastValidation = NoResult

ReconfigNext ==
    \/ \E t \in FieldTypeSet : \E raw \in ReconfigInputs : Reconfigure(t, raw)
    \/ \E i \in 1..Len(fields) : \E v \in FillValues(fields[i].type) :
          \/ TanStackChange(fields[i].name, v)
          \/ FormikChange(fields[i].name, v)
    \/ TanStackSubmit
    \/ FormikSubmit

SpecReconfig == ReconfigInit /\ [][ReconfigNext]_vars

----------------------------------------------------------------------------
(* Properties of the field generator and of the configuration controls *)

SumOfCounts(cfg) ==
    cfg.textField + cfg.select + cfg.autocomplete + cfg.checkbox + cfg.datePicker

\* the number written after "field_" in a name
NameIndex(name) == parseInt(SubSeq(name, 7, Len(name)))

\* the number written after the last space of a label
LabelNumber(label) ==
    LET lastSpace == CHOOSE i \in 1..Len(label) :
            label[i] = " " /\ \A j \in (i + 1)..Len(label) : label[j] # " "
    IN  parseInt(SubSeq(label, lastSpace + 1, Len(label)))

TypeRank(type) == CHOOSE r \in 1..Len(FieldTypes) : FieldTypes[r] = type

\* C1: for a configuration with counts in [0,20], the generated sequence has
\* as many fields as the sum of the counts, the i-th name is "field_" followed
\* by the number i (unique, strictly increasing, never reset between the
\* groups) and the id of a field equals its name.
C1_LengthAndNames ==
    (\A t \in FieldTypeSet : config[t] \in MinCount..MaxCount) =>
        /\ Len(fields) = SumOfCounts(config)
        /\ \A i \in 1..Len(fields) :
            /\ SubSeq(fields[i].name, 1, 6) = <<"f", "i", "e", "l", "d", "_">>
            /\ ~NameIndex(fields[i].name).nan
            /\ NameIndex(fields[i].name).value = i
            /\ fields[i].name = <<"f", "i", "e", "l", "d", "_">> \o NumberToString(i)
            /\ fields[i].id = fields[i].name
        /\ \A i, j \in 1..Len(fields) :
            i < j => /\ fields[i].name # fields[j].name
                     /\ NameIndex(fields[i].name).value < NameIndex(fields[j].name).value

\* a configuration set through the controls with several non-empty groups, one of them full
C1_Witness ==
    /\ changes > 0
    /\ config.textField = MaxCount
    /\ config.select > 0
    /\ config.datePicker > 0
    /\ Len(fields) > MaxCount + 1
    /\ fields[Len(fields)].type = "datePicker"

\* C2: the fields of a type are contiguous, the groups come in the order
\* textField, select, autocomplete, checkbox, datePicker, the k-th field of a
\* group carries the number k in its label and a type whose count is 0 has
\* no field.
C2_GroupsAndLabels ==
    /\ \A i, j \in 1..Len(fields) :
        i < j => TypeRank(fields[i].type) <= TypeRank(fields[j].type)
    /\ \A t \in FieldTypeSet :
        Cardinality({i \in 1..Len(fields) : fields[i].type = t}) = Max(0, config[t])
    /\ \A i \in 1..Len(fields) :
        /\ ~LabelNumber(fields[i].label).nan
        /\ LabelNumber(fields[i].label).value =
              1 + Cardinality({j \in 1..(i - 1) : fields[j].type = fields[i].type})
        /\ LabelNumber(fields[i].label).value \in 1..config[fields[i].type]

\* a configuration with an empty group between two non-empty ones
C2_Witness ==
    /\ changes > 0
    /\ config.textField > 1
    /\ config.select = 0
    /\ config.autocomplete > 1
    /\ config.checkbox > 1
    /\ fields[config.textField + 1].type = "autocomplete"

\* C3: after any sequence of configuration-control changes every count is an
\* integer in [0,20], and the last change was applied with its input
\* replaced by the nearest limit (never refused).
C3_CountsClamped ==
    /\ \A t \in FieldTypeSet : config[t] \in Int /\ config[t] >= 0 /\ config[t] <= 20
    /\ lastChange.type # "none" =>
        config[lastChange.type] =
            IF lastChange.value < 0 THEN 0
            ELSE IF lastChange.value > 20 THEN 20
            ELSE lastChange.value

\* a negative number was typed after a number above the limit
C3_Witness ==
    /\ lastChange.type # "none"
    /\ lastChange.value < 0
    /\ config[lastChange.type] = 0
    /\ \E t \in FieldTypeSet : config[t] = 20 /\ InitialConfig[t] # 20

\* C4: the initial values have exactly one entry per field name and no other
\* key; the entry is the empty string for a textField, select or autocomplete
\* field, false for a checkbox and null for a datePicker.
C4_InitialValues ==
    /\ DOMAIN initialValues = {fields[i].name : i \in 1..Len(fields)}
    /\ Cardinality(DOMAIN initialValues) = Len(fields)
    /\ \A i \in 1..Len(fields) :
        LET v == initialValues[fields[i].name]
        IN  CASE fields[i].type \in {"textField", "select", "autocomplete"} ->
                    v.t = "string" /\ v.s = <<>>
              [] fields[i].type = "checkbox" -> v.t = "boolean" /\ v.b = FALSE
              [] fields[i].type = "datePicker" -> v.t = "null"

\* initial values of a changed configuration that has fields of the five types
C4_Witness ==
    /\ changes > 0
    /\ \A t \in FieldTypeSet : config[t] > 0
    /\ Cardinality(DOMAIN initialValues) > SumOfCounts(InitialConfig)

----------------------------------------------------------------------------
(* Properties of the validation schema builders *)

\* the (path, message) pairs of a Zod result and of a Yup result
ZodPairs(res) ==
    {<<PathJoin(res.issues[k].path), res.issues[k].message>> : k \in 1..Len(res.issues)}

YupPairs(res) ==
    {<<res.inner[k].path, res.inner[k].message>> : k \in 1..Len(res.inner)}

FieldsPath == <<"f", "i", "e", "l", "d", "s">>

\* every character of the text is a space
IsBlank(text) == \A k \in 1..Len(text) : text[k] = " "

RequiredFieldIndexes == {i \in 1..Len(fields) : fields[i].type \in {"textField", "select", "autocomplete"}}

DateFieldIndexes == {i \in 1..Len(fields) : fields[i].type = "datePicker"}

\* C5: for a text field the single-field validator of both builders returns a
\* non-empty message for the empty string and for a string of length 1 or 2,
\* and no error for a string of length 3 or more.
C5_TextFieldValidator ==
    fieldResult.ran =>
        \A i \in 1..Len(fields) :
            fields[i].type = "textField" =>
                LET n == fields[i].name
                    short == Len(payload[n].s) < 3
                IN  /\ short => /\ fieldResult.zod[n] \notin {NoError, ""}
                                /\ fieldResult.yup[n] \notin {NoError, ""}
                    /\ ~short => /\ fieldResult.zod[n] = NoError
                                 /\ fieldResult.yup[n] = NoError

\* the validators ran on a text of length 2 and on a text of length 3
C5_Witness ==
    /\ fieldResult.ran
    /\ \E i \in 1..Len(fields) : fields[i].type = "textField" /\ Len(payload[fields[i].name].s) = 2
    /\ \E i \in 1..Len(fields) : fields[i].type = "textField" /\ Len(payload[fields[i].name].s) = 3

\* C6: with at least one textField, select or autocomplete field, both
\* whole-schema validators fail with 'At least one field must be filled' at
\* the path 'fields' when every such value is empty or made of spaces, and do
\* not produce that error when one such value is non-empty after trimming;
\* without such a field the error is never produced.
C6_CrossFieldRule ==
    LET allBlank == \A i \in RequiredFieldIndexes : IsBlank(payload[fields[i].name].s)
        expected == RequiredFieldIndexes # {} /\ allBlank
        formError == <<FieldsPath, "At least one field must be filled">>
    IN  /\ zodResult.ran =>
            /\ expected => formError \in ZodPairs(zodResult) /\ zodResult.issues # <<>>
            /\ ~expected => \A pair \in ZodPairs(zodResult) : pair[2] # formError[2]
        /\ yupResult.ran =>
            /\ expected => formError \in YupPairs(yupResult) /\ yupResult.inner # <<>>
            /\ ~expected => \A pair \in YupPairs(yupResult) : pair[2] # formError[2]

\* both validators ran on values whose required fields hold only spaces, one of them not empty
C6_Witness ==
    /\ zodResult.ran /\ yupResult.ran
    /\ Cardinality(RequiredFieldIndexes) > 1
    /\ \A i \in RequiredFieldIndexes : IsBlank(payload[fields[i].name].s)
    /\ \E i \in RequiredFieldIndexes : Len(payload[fields[i].name].s) = 3
    /\ <<FieldsPath, "At least one field must be filled">> \in ZodPairs(zodResult) \cap YupPairs(yupResult)

\* C7: for both whole-schema validators a date at or before the current time
\* makes the validation fail with the date error, and when every date is
\* null or strictly after the current time there is no date error.
C7_DateRule ==
    LET pastDate == \E i \in DateFieldIndexes :
            payload[fields[i].name].t = "date" /\ payload[fields[i].name].time <= now
        dateMessage == "Selected date must be in the future"
    IN  /\ zodResult.ran =>
            /\ pastDate => zodResult.issues # <<>> /\ \E pair \in ZodPairs(zodResult) : pair[2] = dateMessage
            /\ ~pastDate => \A pair \in ZodPairs(zodResult) : pair[2] # dateMessage
        /\ yupResult.ran =>
            /\ pastDate => yupResult.inner # <<>> /\ \E pair \in YupPairs(yupResult) : pair[2] = dateMessage
            /\ ~pastDate => \A pair \in YupPairs(yupResult) : pair[2] # dateMessage

\* both validators ran on a date equal to the current time
C7_Witness ==
    /\ zodResult.ran /\ yupResult.ran
    /\ \E i \in DateFieldIndexes :
        payload[fields[i].name].t = "date" /\ payload[fields[i].name].time = now
    /\ zodResult.issues # <<>>
    /\ yupResult.inner # <<>>

\* C8: the Zod and the Yup whole-schema validators of a configuration agree
\* on every values payload: both accept or both reject, and they report the
\* same set of (path, message) pairs.
C8_BuildersAgree ==
    (zodResult.ran /\ yupResult.ran) =>
        /\ (zodResult.issues = <<>>) <=> (yupResult.inner = <<>>)
        /\ ZodPairs(zodResult) = YupPairs(yupResult)

----------------------------------------------------------------------------
(* Properties of the form components *)

\* the issues of the whole-schema validator of the mounted variant for the
\* current values at a time
SchemaIssues(time) ==
    IF variant = "tanstack"
    THEN createZodFormSchemaWithCrossValidation(fields, values, time)
    ELSE createYupFormSchemaWithCrossValidation(fields, values, time)

\* the joined paths of the issues of the whole-schema validator
SchemaPaths(time) ==
    IF variant = "tanstack"
    THEN {PathJoin(SchemaIssues(time)[k].path) : k \in 1..Len(SchemaIssues(time))}
    ELSE {SchemaIssues(time)[k].path : k \in 1..Len(SchemaIssues(time))}

\* C9: in both variants, when the validation of a change, a blur or a submit
\* is one the whole-schema validator fails, the failure does not leave the
\* handler as an exception, it is reported as failed, and the errors it is
\* turned into are not empty: during a change or a blur every failing path
\* has an entry in the errors by path, and during a submit there is an
\* entry by path or a form-level message.
C9_FailureBecomesStructuredError ==
    (variant # "none" /\ lastValidation.ran) =>
        /\ ~lastValidation.escaped
        /\ SchemaIssues(lastValidation.time) # <<>> =>
              /\ lastValidation.failed
              /\ DOMAIN lastValidation.fields # {} \/ lastValidation.form # <<>>
              /\ lastValidation.cause \in {"change", "blur"} =>
                    /\ SchemaPaths(lastValidation.time) \subseteq DOMAIN lastValidation.fields
                    /\ variant = "formik" => formErrors # <<>> /\ ~FormikIsValid(errors)
                    /\ variant = "tanstack" => ~TanStackIsValid(errors)

\* a TanStack submit whose onSubmitAsync validation failed after the clock
\* reached the selected date: its catch produced the form message and the
\* message at the path 'fields'
C9_Witness ==
    /\ lastValidation.ran
    /\ lastValidation.cause = "submit"
    /\ variant = "tanstack"
    /\ SchemaIssues(lastValidation.time) # <<>>
    /\ lastValidation.form = <<MsgFixErrors>>
    /\ FieldsPath \in DOMAIN lastValidation.fields

\* the validation of the attempt ran and the whole-schema validator accepts
\* the current values at its time
AttemptAccepted == lastAttempt.validated /\ SchemaIssues(lastAttempt.time) = <<>>

\* the submission time an accepted attempt records
AttemptStamp == [t |-> "number", n |-> PerformanceNow(lastAttempt.time)]

\* what a submit attempt did, against the whole-schema validator applied to
\* the current values at the time of the validation of the attempt
AttemptOutcome ==
    variant # "none" /\ lastAttempt.n = 1 =>
        IF AttemptAccepted
        THEN /\ lastAttempt.calls = 1
             /\ lastAttempt.delivered = [t |-> "object", fields |-> values]
             /\ DOMAIN lastAttempt.delivered.fields = FieldNames(fields)
             /\ lastAttempt.recorded
             /\ submittedAt = AttemptStamp
        ELSE /\ lastAttempt.calls = 0
             /\ ~lastAttempt.recorded

\* C10: in both variants a submit attempt calls the onSubmit prop and records
\* the submission time only when its validation ran and the whole-schema
\* validator accepts the current values at the time of that validation:
\* then the prop is called once with the complete current values and the
\* time is recorded; an attempt whose values the validator rejects calls it
\* zero times and leaves the recorded time as it was, and so does every
\* change, blur and tick of the clock.
C10_CallbackOnlyWhenAccepted ==
    /\ []AttemptOutcome
    /\ [][submittedAt' # submittedAt \/ (lastAttempt'.n = 1 /\ lastAttempt'.calls = 1)
              => lastAttempt'.n = 1 /\ AttemptAccepted' /\ submittedAt' = AttemptStamp']_vars

\* an accepted attempt on changed values called the prop once with them
C10_Witness ==
    /\ lastAttempt.n = 1
    /\ lastAttempt.calls = 1
    /\ lastAttempt.recorded
    /\ Len(fields) > 0
    /\ lastAttempt.delivered.fields = values
    /\ values # initialValues

----------------------------------------------------------------------------
(* Properties of a form whose configuration changes *)

\* every field of the current configuration holds a value that fills it validly
EveryFieldFilled ==
    \A i \in 1..Len(fields) :
        /\ fields[i].name \in DOMAIN values
        /\ values[fields[i].name] \in FillValues(fields[i].type)
        /\ values[fields[i].name] # InitialValueOf(fields[i].type)

\* C11: in both variants, after the configuration controls changed the
\* configuration and every field was validly filled, a successful submit
\* hands the onSubmit prop an object whose keys are exactly the names
\* generateFields gives for the current configuration.
C11_SubmittedKeysMatchFields ==
    (variant # "none" /\ lastAttempt.n = 1 /\ lastAttempt.calls = 1
        /\ changes > 0 /\ Len(fields) > 0 /\ EveryFieldFilled)
    => DOMAIN lastAttempt.delivered.fields = FieldNames(fields)

----------------------------------------------------------------------------
(* Properties of the errors shown under a field *)

\* fieldTouched && formik.errors.fields?.[fieldName]
fieldError(name) == name \in touched /\ YupFieldPath(name) \in DOMAIN errors.schema

\* field.state.meta.errors && field.state.meta.errors.length > 0
MetaErrors(name) ==
    errors.fields[name].change # NoFieldError \/ errors.fields[name].submit # NoError

\* error / helperText of the input of a field
ErrorDisplayed(name) == IF variant = "tanstack" THEN MetaErrors(name) ELSE fieldError(name)

\* the value the field holds is rejected by the field validator of the
\* variant or is a date that is not in the future
ViolatesRule(name) ==
    LET type == FieldOf(fields, name).type
        value == Read(values, name)
    IN  \/ variant = "tanstack" /\ getZodFieldValidator(type, value) # NoError
        \/ variant = "formik" /\ createFieldValidator(type, value) # NoError
        \/ type = "datePicker" /\ value.t = "date" /\ value.time <= now

\* a blur of an untouched field: the field becomes touched, no value changes
\* and nothing is submitted
FirstBlur(name) ==
    /\ name \notin touched
    /\ name \in touched'
    /\ values' = values
    /\ lastAttempt'.n = 0
    /\ now' = now

\* C12: in both variants the field validator runs on every change and on
\* every blur: once a field whose value violates its rule is blurred its
\* error is displayed, and once its value is changed to a valid one the
\* error is removed.
C12_ValidatedOnChangeAndBlur ==
    [][\A name \in FieldNames(fields) :
          /\ FirstBlur(name) /\ ViolatesRule(name)' => ErrorDisplayed(name)'
          /\ Read(values', name) # Read(values, name) /\ ~ViolatesRule(name)'
                => ~ErrorDisplayed(name)']_vars

----------------------------------------------------------------------------
(* tests/utils/performance.ts: PerformanceCollector, and the tests that use it *)

\* the calls of a collector in one test
MaxCalls == 2

\* the elapsed times and the sizes the browser reports
MaxDuration == 2

Durations == 1..MaxDuration

\* measurements.push(2000)
TimeoutSentinel == 2000

\* for (let i = 0; i < 3; i++)
ValidatedFields == 3

\* expect(avgValidationTime).toBeLessThan(500)
AverageLimit == 500

\* expect(time).toBeLessThan(1000)
EachLimit == 1000

\* retries: process.env.CI ? 2 : 0
Retries == IF ci THEN 2 ELSE 0

FormTypes == {"tanstack", "formik"}

Operations ==
    {"measurePageLoad", "measureFormRender", "measureFieldInteraction",
     "measureValidation", "measureSubmission"}

\* the configurations the tests measure
MeasuredConfigs == {InitialConfig}

\* the i-th call of a test: the operation, the page it is made on and the
\* testName, formType and fieldConfig it is given
CallsAt(i) ==
    {[op |-> op, testName |-> NumberToString(i), formType |-> formType, fieldConfig |-> cfg] :
        op \in Operations, formType \in FormTypes, cfg \in MeasuredConfigs}

\* the bodies of the tests: at most MaxCalls calls of the collector
Plans ==
    UNION {{plan \in [1..n -> UNION {CallsAt(i) : i \in 1..n}] :
                \A i \in 1..n : plan[i] \in CallsAt(i)} : n \in 1..MaxCalls}

\* Object.values(fieldConfig).reduce((sum, count) => sum + count, 0)
TotalFields(cfg) ==
    cfg.textField + cfg.select + cfg.autocomplete + cfg.checkbox + cfg.datePicker

\* const metrics: PerformanceMetrics = { timestamp: Date.now(), testName, ... }
PerformanceMetrics(call, measured) ==
    [timestamp |-> now, testName |-> call.testName, formType |-> call.formType,
     fieldConfig |-> call.fieldConfig, totalFields |-> TotalFields(call.fieldConfig),
     metrics |-> measured]

\* collectWebVitals: the paint entries observed, or {} after the fallback timeout
WebVitals == {EmptyMap, ("firstContentfulPaint" :> MaxDuration)}

\* collectMemoryUsage: {} when performance.memory is not exposed
MemoryUsage ==
    {EmptyMap,
     [jsHeapUsedSize |-> MaxDuration, jsHeapTotalSize |-> MaxDuration, memoryUsage |-> MaxDuration]}

\* the call the test makes next
Current == scenario.plan[scenario.pc]

CanCall(op) ==
    /\ scenario.kind = "collector"
    /\ scenario.status = "running"
    /\ scenario.pc <= Len(scenario.plan)
    /\ Current.op = op

\* the operation returns after pushing the records `pushed`
Returns(call, pushed) ==
    /\ metrics' = metrics \o pushed
    /\ returned' = Append(returned, call)
    /\ attempts' = Append(attempts, [run |-> scenario.run, call |-> call, ok |-> TRUE])
    /\ scenario' = [scenario EXCEPT !.pc = @ + 1]

\* a wait of the operation times out: the TimeoutError leaves the operation
\* and the test function
Throws(call) ==
    /\ attempts' = Append(attempts, [run |-> scenario.run, call |-> call, ok |-> FALSE])
    /\ scenario' = [scenario EXCEPT !.status = "finished", !.result = "failed"]
    /\ UNCHANGED <<metrics, returned>>

measurePageLoad(visible) ==
    /\ CanCall("measurePageLoad")
    /\ IF visible THEN Returns(Current, <<>>) ELSE Throws(Current)
    /\ UNCHANGED <<pageVars, validationVars, formVars, reportVars, generatorVars, scriptVars, ci,
                   measurements, saved>>

\* configureFields(page, fieldConfig) on the page page.goto(url) has loaded:
\* every configuration control is filled with the count as text, and the
\* page handles each change
configureFields(fieldConfig) ==
    LET typed == [type \in FieldTypeSet |-> NumberToString(fieldConfig[type])]
        newConfig == [type \in FieldTypeSet |-> Clamp(ParseOrZero(typed[type]))]
    IN  /\ config' = newConfig
        /\ Render(newConfig)
        /\ lastChange' = [type |-> "datePicker", raw |-> typed.datePicker,
                          value |-> ParseOrZero(typed.datePicker)]
        /\ changes' = Cardinality(FieldTypeSet)

measureFormRender(visible, populated, renderTime, webVitals, memoryUsage) ==
    /\ CanCall("measureFormRender")
    /\ IF visible /\ populated
       THEN Returns(Current,
                <<PerformanceMetrics(Current,
                    memoryUsage @@ ("formRenderTime" :> renderTime) @@ webVitals)>>)
       ELSE Throws(Current)
    /\ configureFields(Current.fieldConfig)
    /\ UNCHANGED <<validationVars, formVars, reportVars, generatorVars, scriptVars, ci,
                   measurements, saved>>

measureFieldInteraction(present, interactionTime) ==
    /\ CanCall("measureFieldInteraction")
    /\ IF present
       THEN Returns(Current,
                <<PerformanceMetrics(Current, ("inputResponseTime" :> interactionTime))>>)
       ELSE Throws(Current)
    /\ UNCHANGED <<pageVars, validationVars, formVars, reportVars, generatorVars, scriptVars, ci,
                   measurements, saved>>

measureValidation(errorVisible, validationTime) ==
    /\ CanCall("measureValidation")
    /\ IF errorVisible
       THEN Returns(Current,
                <<PerformanceMetrics(Current,
                    [validationTime |-> validationTime, errorDisplayTime |-> validationTime])>>)
       ELSE Throws(Current)
    /\ UNCHANGED <<pageVars, validationVars, formVars, reportVars, generatorVars, scriptVars, ci,
                   measurements, saved>>

measureSubmission(successVisible, submissionTime) ==
    /\ CanCall("measureSubmission")
    /\ IF successVisible
       THEN Returns(Current,
                <<PerformanceMetrics(Current, ("submissionTime" :> submissionTime))>>)
       ELSE Throws(Current)
    /\ UNCHANGED <<pageVars, validationVars, formVars, reportVars, generatorVars, scriptVars, ci,
                   measurements, saved>>

\* the test function returns after its last call
TestReturns ==
    /\ scenario.kind = "collector"
    /\ scenario.status = "running"
    /\ scenario.pc > Len(scenario.plan)
    /\ scenario' = [scenario EXCEPT !.status = "finished", !.result = "passed"]
    /\ UNCHANGED <<pageVars, validationVars, formVars, reportVars, generatorVars, scriptVars, ci,
                   metrics, returned,
                   attempts, measurements, saved>>

\* one turn of the loop of a validation test: the wait for the error message
\* in a try, the catch records the timeout
ValidationTestStep(errorVisible, elapsed) ==
    /\ scenario.kind = "validation"
    /\ scenario.status = "running"
    /\ scenario.pc <= ValidatedFields
    /\ measurements' = Append(measurements, IF errorVisible THEN elapsed ELSE TimeoutSentinel)
    /\ attempts' = Append(attempts,
            [run |-> scenario.run,
             call |-> [op |-> "validationTest", testName |-> NumberToString(scenario.pc),
                       formType |-> scenario.page, fieldConfig |-> InitialConfig],
             ok |-> errorVisible])
    /\ scenario' = [scenario EXCEPT !.pc = @ + 1]
    /\ UNCHANGED <<pageVars, validationVars, formVars, reportVars, generatorVars, scriptVars, ci,
                   metrics, returned, saved>>

RECURSIVE SumOf(_)
SumOf(numbers) == IF numbers = <<>> THEN 0 ELSE Head(numbers) + SumOf(Tail(numbers))

\* the assertions at the end of a validation test: the average below
\* AverageLimit and each measurement below EachLimit
ValidationTestAssertions ==
    /\ scenario.kind = "validation"
    /\ scenario.status = "running"
    /\ scenario.pc > ValidatedFields
    /\ LET passes ==
            /\ SumOf(measurements) < AverageLimit * Len(measurements)
            /\ \A i \in 1..Len(measurements) : measurements[i] < EachLimit
       IN  scenario' = [scenario EXCEPT !.status = "finished",
                                        !.result = IF passes THEN "passed" ELSE "failed"]
    /\ UNCHANGED <<pageVars, validationVars, formVars, reportVars, generatorVars, scriptVars, ci,
                   metrics, returned,
                   attempts, measurements, saved>>

\* test.afterEach: collector.saveMetrics(filename) writes JSON.stringify(this.metrics)
saveMetrics ==
    /\ scenario.kind # "none"
    /\ scenario.status = "finished"
    /\ saved' = Append(saved, metrics)
    /\ scenario' = [scenario EXCEPT !.status = "saved"]
    /\ UNCHANGED <<pageVars, validationVars, formVars, reportVars, generatorVars, scriptVars, ci,
                   metrics, returned,
                   attempts, measurements>>

\* the runner runs a failed test again: test.beforeEach makes a new collector
RetryTest ==
    /\ scenario.kind # "none"
    /\ scenario.status = "saved"
    /\ scenario.result = "failed"
    /\ scenario.run < Retries
    /\ scenario' = [scenario EXCEPT !.status = "running", !.result = "none", !.pc = 1,
                                    !.run = @ + 1]
    /\ metrics' = <<>>
    /\ returned' = <<>>
    /\ measurements' = <<>>
    /\ UNCHANGED <<pageVars, validationVars, formVars, reportVars, generatorVars, scriptVars, ci,
                   attempts, saved>>

\* a test at its start, after test.beforeEach
Scenarios ==
    {[kind |-> "collector", plan |-> plan, page |-> plan[1].formType, pc |-> 1, run |-> 0,
      status |-> "running", result |-> "none"] : plan \in Plans}
    \cup
    {[kind |-> "validation", plan |-> <<>>, page |-> formType, pc |-> 1, run |-> 0,
      status |-> "running", result |-> "none"] : formType \in FormTypes}

CollectorInit ==
    /\ PageIdle(InitialConfig)
    /\ ValidationIdle
    /\ FormIdle
    /\ ReportIdle
    /\ GeneratorIdle
    /\ ci \in BOOLEAN
    /\ scenario \in Scenarios
    /\ metrics = <<>>
    /\ returned = <<>>
    /\ attempts = <<>>
    /\ measurements = <<>>
    /\ saved = <<>>

CollectorNext ==
    \/ \E visible \in BOOLEAN : measurePageLoad(visible)
    \/ \E visible, populated \in BOOLEAN : \E renderTime \in Durations :
          \E webVitals \in WebVitals : \E memoryUsage \in MemoryUsage :
              measureFormRender(visible, populated, renderTime, webVitals, memoryUsage)
    \/ \E present \in BOOLEAN : \E t \in Durations : measureFieldInteraction(present, t)
    \/ \E errorVisible \in BOOLEAN : \E t \in Durations : measureValidation(errorVisible, t)
    \/ \E successVisible \in BOOLEAN : \E t \in Durations : measureSubmission(successVisible, t)
    \/ TestReturns
    \/ \E errorVisible \in BOOLEAN : \E t \in Durations : ValidationTestStep(errorVisible, t)
    \/ ValidationTestAssertions
    \/ saveMetrics
    \/ RetryTest

SpecCollector == CollectorInit /\ [][CollectorNext]_vars

----------------------------------------------------------------------------
(* PerformanceReportGenerator *)

\* the samples handed to a report generator
MaxSamples == 3

\* this.metrics.filter((m) => m.totalFields > 20)
ScalabilityThreshold == 20

\* const hasScalabilityData = summary.totalTests > 10
ScalabilityDataTests == 10

\* a number as a fraction in lowest terms
RECURSIVE GCD(_, _)
GCD(a, b) == IF b = 0 THEN a ELSE GCD(b, a % b)

\* sum / count for count > 0
Quotient(sum, count) ==
    LET g == GCD(sum, count) IN [num |-> sum \div g, den |-> count \div g]

Zero == [num |-> 0, den |-> 1]

\* a < b
Less(a, b) == a.num * b.den < b.num * a.den

\* this.metrics.filter((m) => m.formType === formType)
OfFormType(ms, formType) ==
    LET Is(m) == m.formType = formType IN SelectSeq(ms, Is)

\* metrics.map((m) => m.metrics[field]).filter((v) => v !== undefined)
ValuesOf(ms, field) ==
    LET Has(m) == field \in DOMAIN m.metrics
        having == SelectSeq(ms, Has)
    IN  [i \in 1..Len(having) |-> having[i].metrics[field]]

\* a variant of getAverage that divides by the number of samples
getAverageOverAllSamples(ms, field) ==
    LET numbers == ValuesOf(ms, field)
    IN  IF Len(numbers) > 0 THEN Quotient(SumOf(numbers), Len(ms)) ELSE Zero

\* values.length > 0 ? values.reduce((sum, val) => sum + val, 0) / values.length : 0
getAverage(ms, field) ==
    LET numbers == ValuesOf(ms, field)
    IN  IF Len(numbers) > 0 THEN Quotient(SumOf(numbers), Len(numbers)) ELSE Zero

generateSummary(tanstackMetrics, formikMetrics) ==
    [totalTests |-> Len(results),
     tanstackTests |-> Len(tanstackMetrics),
     formikTests |-> Len(formikMetrics),
     averageRenderTime |-> [tanstack |-> getAverage(tanstackMetrics, "formRenderTime"),
                            formik |-> getAverage(formikMetrics, "formRenderTime")],
     averageValidationTime |-> [tanstack |-> getAverage(tanstackMetrics, "validationTime"),
                                formik |-> getAverage(formikMetrics, "validationTime")],
     averageInteractionTime |-> [tanstack |-> getAverage(tanstackMetrics, "inputResponseTime"),
                                 formik |-> getAverage(formikMetrics, "inputResponseTime")],
     memoryUsage |-> [tanstack |-> getAverage(tanstackMetrics, "memoryUsage"),
                      formik |-> getAverage(formikMetrics, "memoryUsage")]]

\* a variant of categorizeResults whose scalability bucket starts at the threshold
categorizeResultsFromThreshold ==
    LET HasRender(m) == "formRenderTime" \in DOMAIN m.metrics
        HasInteraction(m) == "inputResponseTime" \in DOMAIN m.metrics
        HasValidation(m) == "validationTime" \in DOMAIN m.metrics
        IsLarge(m) == m.totalFields >= ScalabilityThreshold
    IN  [rendering |-> SelectSeq(results, HasRender),
         interaction |-> SelectSeq(results, HasInteraction),
         validation |-> SelectSeq(results, HasValidation),
         scalability |-> SelectSeq(results, IsLarge)]

categorizeResults ==
    LET HasRender(m) == "formRenderTime" \in DOMAIN m.metrics
        HasInteraction(m) == "inputResponseTime" \in DOMAIN m.metrics
        HasValidation(m) == "validationTime" \in DOMAIN m.metrics
        IsLarge(m) == m.totalFields > ScalabilityThreshold
    IN  [rendering |-> SelectSeq(results, HasRender),
         interaction |-> SelectSeq(results, HasInteraction),
         validation |-> SelectSeq(results, HasValidation),
         scalability |-> SelectSeq(results, IsLarge)]

\* a variant of getWinner without the three tests for a zero average
getWinnerLowerOnly(tanstackAvg, formikAvg, lowerIsBetter) ==
    IF lowerIsBetter
    THEN (IF Less(tanstackAvg, formikAvg) THEN "TanStack" ELSE "Formik")
    ELSE (IF Less(formikAvg, tanstackAvg) THEN "TanStack" ELSE "Formik")

getWinner(tanstackAvg, formikAvg, lowerIsBetter) ==
    IF tanstackAvg = Zero /\ formikAvg = Zero THEN "Tie"
    ELSE IF tanstackAvg = Zero THEN "Formik"
    ELSE IF formikAvg = Zero THEN "TanStack"
    ELSE IF lowerIsBetter
         THEN (IF Less(tanstackAvg, formikAvg) THEN "TanStack" ELSE "Formik")
         ELSE (IF Less(formikAvg, tanstackAvg) THEN "TanStack" ELSE "Formik")

\* the scores after [renderingWinner, ...].forEach((winner) => { ... })
RECURSIVE Scores(_, _)
Scores(scores, winners) ==
    IF winners = <<>> THEN scores
    ELSE LET winner == Head(winners)
             next == [TanStack |-> scores.TanStack + (IF winner = "TanStack" THEN 1 ELSE 0),
                      Formik |-> scores.Formik + (IF winner = "Formik" THEN 1 ELSE 0)]
         IN  Scores(next, Tail(winners))

\* a variant of the overall winner that gives equal scores to Formik
overallWinnerWithoutTie(winners) ==
    LET scores == Scores([TanStack |-> 0, Formik |-> 0], winners)
    IN  IF scores.TanStack > scores.Formik THEN "TanStack" ELSE "Formik"

\* scores.TanStack > scores.Formik ? "TanStack" : scores.Formik > scores.TanStack ? "Formik" : "Tie"
overallWinner(winners) ==
    LET scores == Scores([TanStack |-> 0, Formik |-> 0], winners)
    IN  IF scores.TanStack > scores.Formik THEN "TanStack"
        ELSE IF scores.Formik > scores.TanStack THEN "Formik"
        ELSE "Tie"

generateComparisons(tanstackMetrics, formikMetrics) ==
    LET renderingWinner == getWinner(getAverage(tanstackMetrics, "formRenderTime"),
                                     getAverage(formikMetrics, "formRenderTime"), TRUE)
        validationWinner == getWinner(getAverage(tanstackMetrics, "validationTime"),
                                      getAverage(formikMetrics, "validationTime"), TRUE)
        interactionWinner == getWinner(getAverage(tanstackMetrics, "inputResponseTime"),
                                       getAverage(formikMetrics, "inputResponseTime"), TRUE)
        memoryWinner == getWinner(getAverage(tanstackMetrics, "memoryUsage"),
                                  getAverage(formikMetrics, "memoryUsage"), TRUE)
    IN  [renderingWinner |-> renderingWinner,
         validationWinner |-> validationWinner,
         interactionWinner |-> interactionWinner,
         memoryWinner |-> memoryWinner,
         overallWinner |-> overallWinner(<<renderingWinner, validationWinner,
                                          interactionWinner, memoryWinner>>)]

generateRecommendations(comparisons, summary) ==
    (IF comparisons.renderingWinner = "TanStack"
     THEN <<"TanStack Form shows better rendering performance, especially for complex forms">>
     ELSE IF comparisons.renderingWinner = "Formik"
     THEN <<"Formik shows better rendering performance in your test scenarios">>
     ELSE <<>>)
    \o
    (IF comparisons.validationWinner = "TanStack"
     THEN <<"Zod validation (TanStack) performs better than Yup validation (Formik)">>
     ELSE IF comparisons.validationWinner = "Formik"
     THEN <<"Yup validation (Formik) performs better than Zod validation (TanStack)">>
     ELSE <<>>)
    \o
    (IF comparisons.memoryWinner = "TanStack"
     THEN <<"TanStack Form has better memory efficiency">>
     ELSE IF comparisons.memoryWinner = "Formik"
     THEN <<"Formik has better memory efficiency">>
     ELSE <<>>)
    \o
    (IF summary.totalTests > ScalabilityDataTests
     THEN (IF Less(summary.averageRenderTime.tanstack, summary.averageRenderTime.formik)
           THEN <<"TanStack Form scales better with larger forms">>
           ELSE <<"Formik scales better with larger forms">>)
     ELSE <<>>)
    \o
    (IF comparisons.overallWinner = "TanStack"
     THEN <<"Overall recommendation: TanStack Form for better performance">>
     ELSE IF comparisons.overallWinner = "Formik"
     THEN <<"Overall recommendation: Formik for better performance">>
     ELSE <<"Both libraries show similar performance - choose based on developer experience preferences">>)

\* the last two elements of a list
LastTwo(list) == IF Len(list) <= 2 THEN list ELSE SubSeq(list, Len(list) - 1, Len(list))

\* the PerformanceReport generateReport() returns for the samples the generator holds
PerformanceReport ==
    LET tanstackMetrics == OfFormType(results, "tanstack")
        formikMetrics == OfFormType(results, "formik")
        summary == generateSummary(tanstackMetrics, formikMetrics)
        comparisons == generateComparisons(tanstackMetrics, formikMetrics)
    IN  [t |-> "report",
         timestamp |-> now,
         summary |-> summary,
         detailedResults |-> categorizeResults,
         comparisons |-> comparisons,
         recommendations |-> generateRecommendations(comparisons, summary)]

\* a variant of generateReport that takes the samples out of the generator
generateReportOnce ==
    /\ report' = PerformanceReport
    /\ reports' = LastTwo(Append(reports, report'))
    /\ results' = <<>>
    /\ UNCHANGED <<pageVars, validationVars, formVars, collectorVars, scriptVars, pending>>

\* generateReport()
generateReport ==
    /\ report' = PerformanceReport
    /\ reports' = LastTwo(Append(reports, report'))
    /\ UNCHANGED <<pageVars, validationVars, formVars, collectorVars, scriptVars, results,
                   pending>>

\* the times and sizes of the samples of a report
SampleTimes == {1, MaxDuration}

\* the metrics of the records the operations of the collector push
SampleMetrics(times) ==
    UNION {{("formRenderTime" :> d),
            [formRenderTime |-> d, jsHeapUsedSize |-> d, jsHeapTotalSize |-> MaxDuration,
             memoryUsage |-> d],
            ("inputResponseTime" :> d),
            [validationTime |-> d, errorDisplayTime |-> d],
            ("submissionTime" :> d)} : d \in times}

\* the records of the metrics files
Samples(configs, times) ==
    {PerformanceMetrics([testName |-> NumberToString(1), formType |-> formType,
                         fieldConfig |-> cfg], measured) :
        formType \in FormTypes, cfg \in configs, measured \in SampleMetrics(times)}

\* the lists of at most n records
SampleLists(samples, n) == UNION {[1..k -> samples] : k \in 0..n}

\* configurations on both sides of the threshold of the scalability bucket
ScalabilityConfigs ==
    {[textField |-> ScalabilityThreshold, select |-> extra, autocomplete |-> 0, checkbox |-> 0,
      datePicker |-> 0] : extra \in 0..1}

\* lists with more records than the number of tests above which a report
\* gets a scalability recommendation: a list of at most n records, the last
\* of them repeated
LongLists(samples, n) ==
    {[i \in 1..(ScalabilityDataTests + 1) |-> IF i <= Len(l) THEN l[i] ELSE l[Len(l)]] :
        l \in SampleLists(samples, n) \ {<<>>}}

\* a generator after addMetrics: samples of one configuration with different
\* times, samples of large configurations, or many samples
ReportInit ==
    /\ PageIdle(InitialConfig)
    /\ ValidationIdle
    /\ FormIdle
    /\ CollectorIdle
    /\ GeneratorIdle
    /\ results \in SampleLists(Samples({InitialConfig}, SampleTimes), MaxSamples)
                   \cup SampleLists(Samples(ScalabilityConfigs, {MaxDuration}), MaxCalls)
                   \cup LongLists(Samples({InitialConfig}, {MaxDuration}), MaxCalls)
    /\ report = JSNull

ReportNext == generateReport

SpecReport == ReportInit /\ [][ReportNext]_vars

----------------------------------------------------------------------------
(* Properties of the PerformanceCollector *)

\* the call made by the step, when the step is a call of a measurement
LastAttempt == attempts[Len(attempts)]

\* C13: every successful call of one of the five measurement operations
\* appends exactly one record and leaves the earlier records unchanged, so
\* the list written by saveMetrics holds one record for each call that
\* returned, in call order.
C13_OneRecordPerMeasurement ==
    /\ [][Len(returned') > Len(returned)
            => /\ Len(metrics') = Len(metrics) + 1
               /\ SubSeq(metrics', 1, Len(metrics)) = metrics]_vars
    /\ [](scenario.kind = "collector" /\ scenario.status = "saved"
            => /\ saved[Len(saved)] = metrics
               /\ Len(metrics) = Len(returned)
               /\ \A i \in 1..Len(metrics) : metrics[i].testName = returned[i].testName)

\* the step is a validation measurement whose error message never became visible
ValidationTimedOut ==
    /\ Len(attempts') > Len(attempts)
    /\ LastAttempt'.call.op \in {"measureValidation", "validationTest"}
    /\ ~LastAttempt'.ok

\* C14: when the error message never becomes visible within the wait of a
\* validation measurement, the measurement records 2000 as its validation
\* time, the test goes on and it does not fail because of that timeout.
C14_TimeoutRecordsSentinel ==
    /\ [][ValidationTimedOut
            => /\ scenario'.status = "running"
               /\ IF LastAttempt'.call.op = "validationTest"
                  THEN measurements' = Append(measurements, TimeoutSentinel)
                  ELSE /\ Len(metrics') = Len(metrics) + 1
                       /\ metrics'[Len(metrics')].metrics.validationTime = TimeoutSentinel]_vars
    /\ [](scenario.kind # "none" /\ scenario.result = "failed"
            => \A i \in 1..Len(attempts) :
                  attempts[i].run = scenario.run
                  /\ attempts[i].call.op \in {"measureValidation", "validationTest"}
                      => attempts[i].ok)

\* the operations that wait for the form container or the success message
WaitingOperations == {"measurePageLoad", "measureFormRender", "measureSubmission"}

\* C15: when the awaited signal never appears in measurePageLoad,
\* measureFormRender or measureSubmission, the failure reaches the test, no
\* record is appended for the measurement and the failed measurement is
\* not attempted again.
C15_FailureIsTerminal ==
    /\ [][(Len(attempts') > Len(attempts)
            /\ LastAttempt'.call.op \in WaitingOperations /\ ~LastAttempt'.ok)
            => /\ metrics' = metrics
               /\ scenario'.status = "finished"
               /\ scenario'.result = "failed"]_vars
    /\ [](\A i, j \in 1..Len(attempts) :
            i < j /\ attempts[i].call.op \in WaitingOperations /\ ~attempts[i].ok
                => attempts[j].call # attempts[i].call)

----------------------------------------------------------------------------
(* Properties of the generated report *)

\* the categories of a report: the metric, its average and its winner
Categories ==
    {[field |-> "formRenderTime", average |-> "averageRenderTime", winner |-> "renderingWinner"],
     [field |-> "validationTime", average |-> "averageValidationTime",
      winner |-> "validationWinner"],
     [field |-> "inputResponseTime", average |-> "averageInteractionTime",
      winner |-> "interactionWinner"],
     [field |-> "memoryUsage", average |-> "memoryUsage", winner |-> "memoryWinner"]}

Generated == report # JSNull

\* the positions of the samples of a variant that have a metric
SamplesWith(formType, field) ==
    {i \in 1..Len(results) : results[i].formType = formType /\ field \in DOMAIN results[i].metrics}

\* the sum of a metric over a set of positions
RECURSIVE TotalOver(_, _)
TotalOver(positions, field) ==
    IF positions = {} THEN 0
    ELSE LET i == CHOOSE p \in positions : TRUE
         IN  results[i].metrics[field] + TotalOver(positions \ {i}, field)

\* C16: each average of the report is the arithmetic mean of the metric
\* over exactly the samples of the variant that have it, and 0 when the
\* variant has no sample with the metric.
C16_AverageIsMeanOfPresent ==
    Generated =>
        \A c \in Categories : \A formType \in FormTypes :
            LET having == SamplesWith(formType, c.field)
                average == report.summary[c.average][formType]
            IN  IF having = {} THEN average = Zero
                ELSE average.num * Cardinality(having) = average.den * TotalOver(having, c.field)

\* a variant has samples with and without render time, of different times,
\* and the other variant has none with render time
C16_Witness ==
    /\ Generated
    /\ \E i, j, k \in 1..Len(results) :
          /\ results[i].formType = "tanstack" /\ results[j].formType = "tanstack"
          /\ results[k].formType = "tanstack"
          /\ "formRenderTime" \in DOMAIN results[i].metrics
          /\ "formRenderTime" \in DOMAIN results[j].metrics
          /\ results[i].metrics.formRenderTime # results[j].metrics.formRenderTime
          /\ "formRenderTime" \notin DOMAIN results[k].metrics
    /\ SamplesWith("formik", "formRenderTime") = {}
    /\ report.summary.averageRenderTime.formik = Zero
    /\ report.summary.averageRenderTime.tanstack # Zero

\* C17: in every category the winner is the variant whose average is
\* strictly lower, and equal averages give "Tie".
C17_LowerAverageWins ==
    Generated =>
        \A c \in Categories :
            LET tanstackAvg == report.summary[c.average].tanstack
                formikAvg == report.summary[c.average].formik
                winner == report.comparisons[c.winner]
            IN  /\ Less(tanstackAvg, formikAvg) => winner = "TanStack"
                /\ Less(formikAvg, tanstackAvg) => winner = "Formik"
                /\ tanstackAvg = formikAvg => winner = "Tie"

\* exactly one of the two averages of a category is 0
OneWithoutData(c) ==
    (report.summary[c.average].tanstack = Zero) # (report.summary[c.average].formik = Zero)

\* C18 as stated: in a category in which exactly one variant has average 0,
\* the winner is the variant with the zero average, never "Tie".
C18_ZeroAverageWins ==
    Generated =>
        \A c \in Categories :
            OneWithoutData(c) =>
                report.comparisons[c.winner] =
                    (IF report.summary[c.average].tanstack = Zero THEN "TanStack" ELSE "Formik")

\* C18 amended: in a category in which exactly one variant has average 0,
\* the winner is the variant with the non-zero average, never "Tie".
C18_VariantWithDataWins ==
    Generated =>
        \A c \in Categories :
            OneWithoutData(c) =>
                report.comparisons[c.winner] =
                    (IF report.summary[c.average].tanstack = Zero THEN "Formik" ELSE "TanStack")

\* a report with a category in which only Formik has data and one in which
\* only TanStack has data
C18_Witness ==
    /\ Generated
    /\ \E c, d \in Categories :
          /\ report.summary[c.average].tanstack = Zero
          /\ report.summary[c.average].formik # Zero
          /\ report.comparisons[c.winner] = "Formik"
          /\ report.summary[d.average].formik = Zero
          /\ report.summary[d.average].tanstack # Zero
          /\ report.comparisons[d.winner] = "TanStack"

\* the number of categories a side won
Points(side) == Cardinality({c \in Categories : report.comparisons[c.winner] = side})

\* C19: the overall winner is the variant that won strictly more of the
\* four categories, a tied category counting for neither; equal counts give
\* "Tie".
C19_OverallWinnerByPoints ==
    Generated =>
        /\ Points("TanStack") > Points("Formik") => report.comparisons.overallWinner = "TanStack"
        /\ Points("Formik") > Points("TanStack") => report.comparisons.overallWinner = "Formik"
        /\ Points("TanStack") = Points("Formik") => report.comparisons.overallWinner = "Tie"

\* TanStack won all four categories and is the overall winner
C19_Witness ==
    /\ Generated
    /\ Points("TanStack") = Cardinality(Categories)
    /\ report.comparisons.overallWinner = "TanStack"

\* the number of times a sample is in a list
Occurrences(list, sample) == Cardinality({i \in 1..Len(list) : list[i] = sample})

\* a bucket holds exactly the samples of the results that belong to it
HoldsExactly(bucket, belongs) ==
    /\ \A i \in 1..Len(bucket) : belongs[bucket[i]]
    /\ \A i \in 1..Len(results) :
          belongs[results[i]] =>
              Occurrences(bucket, results[i]) = Occurrences(results, results[i])

\* the samples of the results and of the buckets
AllSamples ==
    {results[i] : i \in 1..Len(results)}
    \cup UNION {{report.detailedResults[b][i] : i \in 1..Len(report.detailedResults[b])} :
                    b \in {"rendering", "interaction", "validation", "scalability"}}

\* C20: the rendering, interaction and validation buckets hold exactly the
\* samples that have render time, input-response time and validation time,
\* and the scalability bucket exactly the samples with more than 20 fields.
C20_BucketsBySampleContent ==
    Generated =>
        /\ HoldsExactly(report.detailedResults.rendering,
                [m \in AllSamples |-> "formRenderTime" \in DOMAIN m.metrics])
        /\ HoldsExactly(report.detailedResults.interaction,
                [m \in AllSamples |-> "inputResponseTime" \in DOMAIN m.metrics])
        /\ HoldsExactly(report.detailedResults.validation,
                [m \in AllSamples |-> "validationTime" \in DOMAIN m.metrics])
        /\ HoldsExactly(report.detailedResults.scalability,
                [m \in AllSamples |-> m.totalFields >= ScalabilityThreshold + 1])

\* a report of a sample with exactly 20 fields, which is in no bucket, and
\* of a sample with 21 fields, which is in the scalability and rendering buckets
C20_Witness ==
    /\ Generated
    /\ \E i, j \in 1..Len(results) :
          /\ results[i].totalFields = ScalabilityThreshold
          /\ \A b \in {"rendering", "interaction", "validation", "scalability"} :
                Occurrences(report.detailedResults[b], results[i]) = 0
          /\ results[j].totalFields = ScalabilityThreshold + 1
          /\ Occurrences(report.detailedResults.scalability, results[j]) > 0
          /\ Occurrences(report.detailedResults.rendering, results[j]) > 0

----------------------------------------------------------------------------
(* PerformanceReportGenerator: the sample list, loaded from files and added to *)

\* the records of the batches: the render samples of both variants
BatchSamples ==
    {m \in Samples({InitialConfig}, {MaxDuration}) : DOMAIN m.metrics = {"formRenderTime"}}

\* what fs.readFile and JSON.parse make of a file: an array of records, an
\* object, a text that is no JSON, or a failure to read
ArrayFile(records) == [ext |-> "json", content |-> [t |-> "array", items |-> records]]
UnreadableFile == [ext |-> "json", content |-> [t |-> "unreadable"]]

\* a variant of loadFile that also takes the samples a saved report holds
loadFileOrReport(list, file) ==
    IF file.content.t = "array" THEN list \o file.content.items
    ELSE IF file.content.t = "object" /\ file.content.value.t = "report"
    THEN list \o file.content.value.detailedResults.rendering
    ELSE list

\* one iteration of loadMetricsFromFiles: the records of an array are pushed,
\* every failure is caught and logged
loadFile(list, file) ==
    IF file.content.t = "array" THEN list \o file.content.items ELSE list

\* loadMetricsFromFiles(files) when it is awaited: the list after every file
RECURSIVE loadAll(_, _)
loadAll(list, files) ==
    IF files = <<>> THEN list ELSE loadAll(loadFile(list, Head(files)), Tail(files))

\* the metrics files given to the constructor
MetricsFiles == {UnreadableFile} \cup {ArrayFile(<<m>>) : m \in BatchSamples}

\* loadMetricsFromFiles(files) as the constructor calls it, without awaiting
\* it: each file is read after an await, so every other call can run in between
loadMetricsFromFiles ==
    /\ pending # <<>>
    /\ results' = loadFile(results, Head(pending))
    /\ pending' = Tail(pending)
    /\ reports' = IF results' = results THEN reports ELSE <<>>
    /\ UNCHANGED <<pageVars, validationVars, formVars, collectorVars, scriptVars, report>>

\* addMetrics(metrics)
addMetrics(batch) ==
    /\ Len(results) + Len(batch) + Len(pending) <= MaxCalls
    /\ results' = results \o batch
    /\ reports' = IF batch = <<>> THEN reports ELSE <<>>
    /\ UNCHANGED <<pageVars, validationVars, formVars, collectorVars, scriptVars, report,
                   pending>>

\* the clock advances between two calls
TimePasses ==
    /\ now < MaxTime
    /\ now' = now + 1
    /\ UNCHANGED <<pageVars, payload, zodResult, yupResult, fieldResult, formVars, toolVars>>

\* new PerformanceReportGenerator(metricsFiles?)
GeneratorInit ==
    /\ PageIdle(InitialConfig)
    /\ ValidationIdle
    /\ FormIdle
    /\ CollectorIdle
    /\ ReportIdle
    /\ pending \in SampleLists(MetricsFiles, MaxCalls)
    /\ reports = <<>>
    /\ directory = <<>>
    /\ exit = JSNull

GeneratorNext ==
    \/ loadMetricsFromFiles
    \/ \E batch \in SampleLists(BatchSamples, 1) : addMetrics(batch)
    \/ generateReport
    \/ TimePasses

SpecGenerator == GeneratorInit /\ [][GeneratorNext]_vars

----------------------------------------------------------------------------
(* Claims about the sample list of the generator *)

\* two reports with the same summary, buckets, winners and recommendations
SameContent(a, b) ==
    /\ a.summary = b.summary
    /\ a.detailedResults = b.detailedResults
    /\ a.comparisons = b.comparisons
    /\ a.recommendations = b.recommendations

\* C21: generateReport never changes the sample list; two consecutive
\* generateReport calls with no addMetrics or load in between return the same
\* summary, buckets, winners and recommendations; and a report generated after
\* addMetrics counts and holds all samples added so far.
C21_ReportFromSampleList ==
    /\ [][(report' # report \/ Len(reports') > Len(reports)) => results' = results]_vars
    /\ [](Len(reports) = 2 => SameContent(reports[1], reports[2]))
    /\ [](reports # <<>> =>
            /\ report = reports[Len(reports)]
            /\ report.summary.totalTests = Len(results)
            /\ report.summary.tanstackTests + report.summary.formikTests = Len(results)
            /\ report.detailedResults.rendering = results)

\* a second report of a list of added samples, made at a later time than
\* the first
C21_Witness ==
    /\ Len(reports) = 2
    /\ reports[1].timestamp # reports[2].timestamp
    /\ Len(results) = MaxCalls
    /\ reports[2] # reports[1]
    /\ pending = <<>>

\* C24: a generator constructed with metrics files has loaded the samples of
\* every readable file before generateReport reads the sample list: every
\* report counts the samples of the list and of the files still to be read.
C24_LoadedBeforeReport ==
    [][report' # report =>
          report'.summary.totalTests = Len(loadAll(results, pending))]_vars

----------------------------------------------------------------------------
(* generateHtmlReport: the bar chart of the average render times *)

BarMaxHeight == 150
BarMinHeight == 20

\* 0 / 0 and x / 0 of JavaScript numbers
NaN == [num |-> 0, den |-> 0]
Infinity == [num |-> 1, den |-> 0]

\* a / b for non-negative numbers
Divide(a, b) ==
    IF a = NaN \/ b = NaN THEN NaN
    ELSE IF b.num = 0 THEN (IF a.num = 0 THEN NaN ELSE Infinity)
    ELSE Quotient(a.num * b.den, a.den * b.num)

\* a * n for a positive integer n
Times(a, n) ==
    IF a.den = 0 THEN a ELSE Quotient(a.num * n, a.den)

\* Math.max(a, b): NaN when one of the two is NaN
MathMax(a, b) ==
    IF a = NaN \/ b = NaN THEN NaN
    ELSE IF a = Infinity \/ b = Infinity THEN Infinity
    ELSE IF Less(a, b) THEN b ELSE a

\* Math.max((avg / Math.max(tanstack, formik)) * 150, 20)
barHeight(avg, averageRenderTime) ==
    MathMax(Times(Divide(avg, MathMax(averageRenderTime.tanstack, averageRenderTime.formik)),
                  BarMaxHeight),
            Quotient(BarMinHeight, 1))

\* generateHtmlReport(report, outputPath): the document, of which the model
\* keeps the heights of the two bars
generateHtmlReport(r) ==
    [t |-> "html",
     bars |-> [tanstack |-> barHeight(r.summary.averageRenderTime.tanstack,
                                      r.summary.averageRenderTime),
               formik |-> barHeight(r.summary.averageRenderTime.formik,
                                    r.summary.averageRenderTime)]]

----------------------------------------------------------------------------
(* Claims about the HTML document *)

\* a <= b for numbers that are not NaN
AtMost(a, b) == a.num * b.den <= b.num * a.den

\* C28: in every report, one without render samples included, the two bar
\* heights are defined numbers between 20 and 150, the variant with the
\* larger average render time gets 150 and the other the height proportional
\* to the ratio of the averages, at least 20.
C28_BarHeightsDefined ==
    Generated =>
        LET avg == report.summary.averageRenderTime
            bars == generateHtmlReport(report).bars
            lower == IF Less(avg.tanstack, avg.formik) THEN "tanstack" ELSE "formik"
            higher == IF lower = "tanstack" THEN "formik" ELSE "tanstack"
        IN  /\ \A v \in {"tanstack", "formik"} :
                  /\ bars[v].den # 0
                  /\ AtMost(Quotient(BarMinHeight, 1), bars[v])
                  /\ AtMost(bars[v], Quotient(BarMaxHeight, 1))
            /\ bars[higher] = Quotient(BarMaxHeight, 1)
            /\ avg[higher].num # 0 =>
                  LET share == Quotient(avg[lower].num * avg[higher].den * BarMaxHeight,
                                        avg[lower].den * avg[higher].num)
                  IN  bars[lower] = IF AtMost(Quotient(BarMinHeight, 1), share)
                                    THEN share
                                    ELSE Quotient(BarMinHeight, 1)

----------------------------------------------------------------------------
(* scripts/generate-report.js: the report of the performance-reports directory *)

\* a JSON file that is no JSON, Playwright's results.json, a saved report
\* and the HTML document written with it
TextFile == [ext |-> "json", content |-> [t |-> "text"]]
ResultsFile == [ext |-> "json", content |-> [t |-> "object", value |-> [t |-> "results"]]]
ReportFile(r) == [ext |-> "json", content |-> [t |-> "object", value |-> r]]
HtmlFile(r) == [ext |-> "html", content |-> generateHtmlReport(r)]

\* fs.writeFile(path, data): the file of that name is replaced or created
WriteFile(dir, name, file) ==
    IF \E i \in 1..Len(dir) : dir[i].name = name
    THEN [i \in 1..Len(dir) |-> IF dir[i].name = name THEN [name |-> name, file |-> file]
                                ELSE dir[i]]
    ELSE Append(dir, [name |-> name, file |-> file])

\* files.filter((file) => file.endsWith(".json")), as files
JsonFiles(dir) ==
    LET IsJson(entry) == entry.file.ext = "json"
        jsonEntries == SelectSeq(dir, IsJson)
    IN  [i \in 1..Len(jsonEntries) |-> jsonEntries[i].file]

\* the files fs.readFile or JSON.parse fail on
FailsToLoad(dir) ==
    {i \in 1..Len(dir) : dir[i].file.ext = "json"
                         /\ dir[i].file.content.t \in {"unreadable", "text"}}

\* what can fail in a run of the script before and after the report is made
LoadFailures == {"none", "mkdir", "readdir"}
SaveFailures == {"none", "writeJson", "writeHtml", "readBack"}

\* performance-report-${timestamp} with the extension
ReportName(ext) == [stem |-> "performance-report", stamp |-> now, ext |-> ext]

\* the script is between the load and the end of saveReport
Loaded == exit # JSNull /\ exit.pc = "loaded"

\* a run of the script up to the awaited load of
\* generateReportFromDirectory(metricsDir, outputDir), both directories being
\* performance-reports; an exception reaches the catch that exits with 1
generateReportFromDirectory(failure) ==
    /\ ~Loaded
    /\ IF failure # "none"
       THEN /\ exit' = [pc |-> "done", code |-> 1, failures |-> {failure}]
            /\ UNCHANGED <<results, report>>
       ELSE /\ results' = loadAll(<<>>, JsonFiles(directory))
            /\ report' = JSNull
            /\ exit' = [pc |-> "loaded", code |-> 0,
                        failures |-> IF FailsToLoad(directory) = {} THEN {} ELSE {"load"}]
    /\ UNCHANGED <<pageVars, validationVars, formVars, collectorVars, generatorVars,
                   directory>>

\* saveReport(report, outputDir) and the rest of the run: the JSON report is
\* written, then the HTML document, then the script reads the JSON report
\* back; an exception reaches the catch that exits with 1
saveReport(failure) ==
    /\ Loaded
    /\ report # JSNull
    /\ directory' =
          IF failure = "writeJson" THEN directory
          ELSE IF failure = "writeHtml"
          THEN WriteFile(directory, ReportName("json"), ReportFile(report))
          ELSE WriteFile(WriteFile(directory, ReportName("json"), ReportFile(report)),
                         ReportName("html"), HtmlFile(report))
    /\ exit' = [pc |-> "done", code |-> IF failure = "none" THEN 0 ELSE 1,
                failures |-> exit.failures \cup ({failure} \ {"none"})]
    /\ UNCHANGED <<pageVars, validationVars, formVars, collectorVars, reportVars,
                   generatorVars>>

\* a suite saves a batch: saveMetrics(filename) writes the records of its
\* collector into the directory
WriteBatch(batch) ==
    /\ Len(directory) < MaxCalls
    /\ directory' = WriteFile(directory,
                              [stem |-> "batch", stamp |-> Len(directory) + 1, ext |-> "json"],
                              ArrayFile(batch))
    /\ reports' = <<>>
    /\ UNCHANGED <<pageVars, validationVars, formVars, collectorVars, reportVars, pending,
                   exit>>

\* the JSON files found in the directory before the first run
FoundFiles ==
    {UnreadableFile, TextFile, ResultsFile} \cup {ArrayFile(<<m>>) : m \in BatchSamples}

ScriptInit ==
    /\ PageIdle(InitialConfig)
    /\ ValidationIdle
    /\ FormIdle
    /\ CollectorIdle
    /\ ReportIdle
    /\ pending = <<>>
    /\ reports = <<>>
    /\ directory \in
          {[i \in 1..Len(l) |->
               [name |-> [stem |-> "batch", stamp |-> i, ext |-> "json"], file |-> l[i]]] :
              l \in SampleLists(FoundFiles, MaxCalls)}
    /\ exit = JSNull

\* the suites have saved their batches before the script runs, or save them
\* after it
ScriptNext ==
    \/ \E failure \in LoadFailures : generateReportFromDirectory(failure)
    \/ Loaded /\ report = JSNull /\ generateReport
    \/ \E failure \in SaveFailures : saveReport(failure)
    \/ ~Loaded /\ \E m \in BatchSamples : WriteBatch(<<m>>)
    \/ TimePasses

SpecScript == ScriptInit /\ [][ScriptNext]_vars

----------------------------------------------------------------------------
(* Claims about the report script *)

\* C22: every file read or write failure during metrics or report
\* persistence reaches the script, which exits with a non-zero status; a
\* metrics file that cannot be read or parsed never comes with a run that
\* ends successfully.
C22_IOFailureEndsScript ==
    (exit # JSNull /\ exit.pc = "done" /\ exit.code = 0) =>
        /\ exit.failures = {}
        /\ FailsToLoad(directory) = {}

\* the number of records of the arrays among the JSON files of the directory
RECURSIVE RecordsIn(_)
RecordsIn(files) ==
    IF files = <<>> THEN 0
    ELSE (IF Head(files).content.t = "array" THEN Len(Head(files).content.items) ELSE 0)
         + RecordsIn(Tail(files))

\* C29: generateReportFromDirectory takes its samples from the metrics
\* batches only: saved reports and Playwright's results.json contribute no
\* sample, and two runs of the script with no new batch in between yield the
\* same totalTests, averages and winners.
C29_OnlyBatchesAreInput ==
    /\ reports # <<>> =>
          reports[Len(reports)].summary.totalTests = RecordsIn(JsonFiles(directory))
    /\ Len(reports) = 2 =>
          /\ reports[1].summary = reports[2].summary
          /\ reports[1].comparisons = reports[2].comparisons

\* a second run at a later time over a directory that holds a batch,
\* results.json and the report of the first run
C29_Witness ==
    /\ Len(reports) = 2
    /\ reports[1].timestamp # reports[2].timestamp
    /\ reports[2].summary.totalTests > 0
    /\ \E i \in 1..Len(directory) : directory[i].file = ResultsFile
    /\ \E i \in 1..Len(directory) : directory[i].file = ReportFile(reports[1])
    /\ exit.pc = "done"
    /\ exit.code = 0

----------------------------------------------------------------------------
(* Claims about the scalability recommendation *)

\* the recommendations of the report, as a set
Recommended == {report.recommendations[i] : i \in 1..Len(report.recommendations)}

\* C27: "TanStack Form scales better with larger forms" is recommended only
\* when the rendering winner is "TanStack", "Formik scales better with larger
\* forms" only when it is "Formik", and neither when the rendering winner is
\* "Tie" or when the report has no sample with more than 20 fields.
C27_ScalabilityFollowsRendering ==
    Generated =>
        /\ "TanStack Form scales better with larger forms" \in Recommended
              => report.comparisons.renderingWinner = "TanStack"
        /\ "Formik scales better with larger forms" \in Recommended
              => report.comparisons.renderingWinner = "Formik"
        /\ (report.comparisons.renderingWinner = "Tie"
            \/ report.detailedResults.scalability = <<>>)
              => Recommended \cap {"TanStack Form scales better with larger forms",
                                   "Formik scales better with larger forms"} = {}

----------------------------------------------------------------------------
(* Claims about the single-field validators and the whole schema *)

\* C23: for a date field the single-field validators of both builders accept
\* null, accept a date strictly after the current time and return an error
\* for a date at or before the current time.
C23_FieldValidatorDateRule ==
    fieldResult.ran =>
        \A i \in DateFieldIndexes :
            LET n == fields[i].name
                future == payload[n].t = "date" /\ payload[n].time > now
                past == payload[n].t = "date" /\ payload[n].time <= now
            IN  /\ (payload[n] = JSNull \/ future) =>
                      /\ fieldResult.zod[n] = NoError
                      /\ fieldResult.yup[n] = NoError
                /\ past =>
                      /\ fieldResult.zod[n] # NoError
                      /\ fieldResult.yup[n] # NoError

\* C30: for every configuration and payload, when the single-field validator
\* of a builder reports no error for the value of any field, the whole-schema
\* validator of that builder accepts the payload.
C30_FieldValidityImpliesFormValidity ==
    fieldResult.ran =>
        /\ (\A n \in FieldNames(fields) : fieldResult.zod[n] = NoError)
              => zodResult.issues = <<>>
        /\ (\A n \in FieldNames(fields) : fieldResult.yup[n] = NoError)
              => yupResult.inner = <<>>

----------------------------------------------------------------------------
(* The rendering and scalability suites: measureFormRender on their configurations *)

\* the small and the medium form of form-rendering.spec.ts, and the text
\* fields the Extra Large form of scalabilityConfigs asks for
SuiteConfigs ==
    {[textField |-> 2, select |-> 1, autocomplete |-> 1, checkbox |-> 1, datePicker |-> 0],
     [textField |-> 5, select |-> 2, autocomplete |-> 2, checkbox |-> 2, datePicker |-> 1],
     [textField |-> 40, select |-> 0, autocomplete |-> 0, checkbox |-> 0, datePicker |-> 0]}

\* the bodies of the tests of the two suites: at most MaxCalls calls of
\* measureFormRender
RenderPlans ==
    UNION {[1..n -> {[op |-> "measureFormRender", testName |-> NumberToString(1),
                      formType |-> formType, fieldConfig |-> cfg] :
                         formType \in FormTypes, cfg \in SuiteConfigs}] : n \in 1..MaxCalls}

RenderInit ==
    /\ PageIdle(InitialConfig)
    /\ ValidationIdle
    /\ FormIdle
    /\ ReportIdle
    /\ GeneratorIdle
    /\ ci = FALSE
    /\ scenario \in {[kind |-> "collector", plan |-> plan, page |-> "none", pc |-> 1, run |-> 0,
                      status |-> "running", result |-> "none"] : plan \in RenderPlans}
    /\ metrics = <<>>
    /\ returned = <<>>
    /\ attempts = <<>>
    /\ measurements = <<>>
    /\ saved = <<>>

RenderNext ==
    \/ \E visible, populated \in BOOLEAN : \E renderTime \in Durations :
          \E webVitals \in WebVitals : \E memoryUsage \in MemoryUsage :
              measureFormRender(visible, populated, renderTime, webVitals, memoryUsage)
    \/ TestReturns
    \/ saveMetrics

SpecRender == RenderInit /\ [][RenderNext]_vars

\* C25: every sample measureFormRender records has the fieldConfig and the
\* totalFields of the configuration the form rendered after configureFields
\* typed the requested counts, for the configurations of the suites, those
\* that request more than 20 fields of one type included.
C25_RecordedConfigIsRendered ==
    [][Len(metrics') > Len(metrics) =>
          /\ metrics'[Len(metrics')].fieldConfig = config'
          /\ metrics'[Len(metrics')].totalFields = Len(fields')]_vars

----------------------------------------------------------------------------
(* Claims about the success indicator *)

\* {submittedAt && <div className="success-message">}
SuccessVisible == submittedAt # JSNull /\ submittedAt.n # 0

\* C26: in both variants the success indicator is visible only while the
\* latest submit attempt on the displayed configuration was accepted: not
\* before the first accepted submit, and no longer after the configuration
\* changed or a later attempt was rejected.
C26_SuccessOnlyForLatestAttempt ==
    SuccessVisible => (lastAttempt.n = 1 /\ AttemptAccepted)

====
